---- MODULE Spec2Model ----
(***************************************************************************)
(* A model of makeiso.py: one run of main() -> OpticalDiscBackup            *)
(* .create_backup(), its streaming copy loop (_create_and_verify_iso), the  *)
(* structural analysis (_analyze_iso_structure / _parse_isolyzer_xml), the  *)
(* manifest (_create_manifest) and the exit status chosen by main().        *)
(*                                                                          *)
(* Encodings.  Python str digests are sequences of hex digits (0..15);      *)
(* None for an Optional[str] is the empty sequence; an Optional[bool] is    *)
(* one of the strings "True", "False", "None"; a dict is a function whose   *)
(* DOMAIN is its key set.  Bytes are small naturals and the 4 MiB block is  *)
(* scaled down to BlockSize bytes.                                          *)
(***************************************************************************)
EXTENDS Integers, Sequences, FiniteSets, TLC

\* ---------------------------------------------------------------- bounds
MaxLen == 2          \* longest source stream, in bytes
MaxTime == 1         \* latest reading of the clock, in seconds
HashMod == 61        \* range of the modelled digest function
MaxUuid == 1         \* uuid4() draws from 0..MaxUuid
MaxAbsent == 1       \* keys left out of (or left in) a sparse disk dictionary
MaxSeconds == 3661   \* longest duration handed to _format_duration
MaxTicks == 5        \* longest elapsed time of a progress update, in clock ticks
BlockSize == 2       \* the 4 * 1024 * 1024 of proc.stdout.read, scaled down
TicksPerSecond == 2  \* resolution of time.time() in the progress display

\* the byte values of the model
Byte == {0, 1}

RECURSIVE SeqsUpTo(_)
SeqsUpTo(n) ==
    IF n = 0 THEN {<<>>}
    ELSE LET S == SeqsUpTo(n - 1)
         IN  S \cup {Append(s, b) : s \in {t \in S : Len(t) = n - 1}, b \in Byte}

Min(a, b) == IF a < b THEN a ELSE b

\* dict.get(key, default)
Get(d, k, default) == IF k \in DOMAIN d THEN d[k] ELSE default

\* ------------------------------------------------------------- hashlib.md5
\* hashlib.md5(): the state of a fresh accumulator
MD5New == 7

RECURSIVE MD5Update(_, _)
\* hasher.update(chunk): absorbs the bytes of chunk one after the other
MD5Update(h, c) ==
    IF c = <<>> THEN h
    ELSE MD5Update((h * 31 + Head(c) + 1) % HashMod, Tail(c))

\* hasher.hexdigest(): the accumulator as a string of two hex digits
HexDigest(h) == << (h \div 16) % 16, h % 16 >>

\* the literal "dry_run_hash": a non-empty string that is no hex digest
DryRunHash == << 16 >>

\* None of an Optional[str]
None == << >>

\* Python truthiness of an Optional[str]
Truthy(s) == s # None /\ Len(s) > 0

\* ------------------------------------------------------------ BackupResult
\* the dataclass BackupResult; returned tells whether create_backup returned it
BackupResult(success, disk_size_, md5_iso_, md5_raw_, creation_time_, error_message_) ==
    [ returned |-> TRUE, success |-> success, disk_size |-> disk_size_,
      md5_iso |-> md5_iso_, md5_raw |-> md5_raw_,
      creation_time |-> creation_time_, error_message |-> error_message_ ]

NoResult ==
    [ returned |-> FALSE, success |-> FALSE, disk_size |-> 0,
      md5_iso |-> None, md5_raw |-> None, creation_time |-> 0, error_message |-> "" ]

\* BackupResult.checksum_match: Optional[bool] as "True" / "False" / "None"
checksum_match(r) ==
    IF Truthy(r.md5_iso) /\ Truthy(r.md5_raw)
    THEN (IF r.md5_iso = r.md5_raw THEN "True" ELSE "False")
    ELSE "None"

\* ---------------------------------------------------------------- files
FileNames == {"dir", "iso", "tree", "log", "manifest", "isolyzer"}
Absent == [exists |-> FALSE, data |-> << >>]
File(data) == [exists |-> TRUE, data |-> data]

\* an image left by an earlier run, longer than any source of the model
OldIso == [i \in 1..(MaxLen + 2) |-> 0]

\* the file system before the run: empty, or holding the image and the
\* validator's report of an earlier run
FsBefore(prior) ==
    [f \in FileNames |->
        CASE f = "iso"      -> IF prior THEN File(OldIso) ELSE Absent
          [] f = "isolyzer" -> IF prior THEN File(<<"old">>) ELSE Absent
          [] f = "dir"      -> IF prior THEN File(<< >>) ELSE Absent
          [] OTHER          -> Absent]

\* ----------------------------------------------------- the validator's XML
\* An element is a function from the tags of its children to them; a leaf is
\* its text.  A document is [wellformed, root].

\* str.strip() on the texts of the model
Strip(s) == IF s = " True " THEN "True" ELSE IF s = " " THEN "" ELSE s

\* the texts int() accepts, and their values
IsIntText(s) == s \in {"0", "1", "2", "2048"}
IntOf(s) == CASE s = "0" -> 0 [] s = "1" -> 1 [] s = "2" -> 2 [] s = "2048" -> 2048

\* _get_xml_text: the stripped text of the child, "" when absent or empty
_get_xml_text(element, path) ==
    IF path \in DOMAIN element /\ element[path] # "" THEN Strip(element[path]) ELSE ""

\* int(text) if text else 0, with ValueError giving 0 (the tests section)
IntOrZero(text) == IF text # "" /\ IsIntText(text) THEN IntOf(text) ELSE 0

\* int(text or 0) raises ValueError on a text that is no integer
IntRaises(text) == text # "" /\ ~IsIntText(text)

\* the tests dictionary built from the tests element
ParseTests(te) ==
    [ contains_known_filesystem |-> _get_xml_text(te, "containsKnownFileSystem") = "True",
      size_expected             |-> IntOrZero(_get_xml_text(te, "sizeExpected")),
      size_actual               |-> IntOrZero(_get_xml_text(te, "sizeActual")),
      size_difference           |-> IntOrZero(_get_xml_text(te, "sizeDifference")),
      size_difference_sectors   |-> IntOrZero(_get_xml_text(te, "sizeDifferenceSectors")),
      size_as_expected          |-> _get_xml_text(te, "sizeAsExpected") = "True",
      smaller_than_expected     |-> _get_xml_text(te, "smallerThanExpected") = "True" ]

\* fs_data of one fileSystem element
ParseFs(fsel) ==
    LET t == Get(fsel, "TYPE", "")
    IN  IF t = "ISO 9660" /\ "primaryVolumeDescriptor" \in DOMAIN fsel
        THEN LET pvd == fsel["primaryVolumeDescriptor"]
             IN [ type |-> t,
                  volume_identifier |-> _get_xml_text(pvd, "volumeIdentifier"),
                  volume_creation_date |-> _get_xml_text(pvd, "volumeCreationDateAndTime"),
                  publisher |-> _get_xml_text(pvd, "publisherIdentifier"),
                  data_preparer |-> _get_xml_text(pvd, "dataPreparerIdentifier"),
                  logical_block_size |-> IntOrZero(_get_xml_text(pvd, "logicalBlockSize")),
                  volume_space_size |-> IntOrZero(_get_xml_text(pvd, "volumeSpaceSize")) ]
        ELSE IF t = "UDF" /\ "logicalVolumeDescriptor" \in DOMAIN fsel
        THEN LET lvd == fsel["logicalVolumeDescriptor"]
             IN [ type |-> t,
                  logical_volume_identifier |-> _get_xml_text(lvd, "logicalVolumeIdentifier"),
                  logical_block_size |-> IntOrZero(_get_xml_text(lvd, "logicalBlockSize")),
                  implementation |-> _get_xml_text(lvd, "implementationIdentifier") ]
        ELSE [ type |-> t ]

\* whether an int(... or 0) of one fileSystem element raises
FsRaises(fsel) ==
    LET t == Get(fsel, "TYPE", "")
    IN  \/ /\ t = "ISO 9660" /\ "primaryVolumeDescriptor" \in DOMAIN fsel
           /\ \/ IntRaises(_get_xml_text(fsel["primaryVolumeDescriptor"], "logicalBlockSize"))
              \/ IntRaises(_get_xml_text(fsel["primaryVolumeDescriptor"], "volumeSpaceSize"))
        \/ /\ t = "UDF" /\ "logicalVolumeDescriptor" \in DOMAIN fsel
           /\ IntRaises(_get_xml_text(fsel["logicalVolumeDescriptor"], "logicalBlockSize"))

\* the warnings compiled from the tests dictionary
CompileWarnings(tests) ==
    IF ~Get(tests, "size_as_expected", TRUE)
    THEN << <<"File size differs from expected by", Get(tests, "size_difference", 0), "bytes">> >>
    ELSE << >>

\* _parse_isolyzer_xml
_parse_isolyzer_xml(xml) ==
    IF ~xml.wellformed
    THEN [error |-> "XML parsing failed", error_type |-> "xml_parse_error"]
    ELSE IF "image" \notin DOMAIN xml.root
    THEN [error |-> "No image element found in XML"]
    ELSE
    LET root  == xml.root
        image == root["image"]
        tool_info ==
            IF "toolInfo" \in DOMAIN root
            THEN [ name    |-> _get_xml_text(root["toolInfo"], "toolName"),
                   version |-> _get_xml_text(root["toolInfo"], "toolVersion") ]
            ELSE << >>
        sizeText ==
            IF "fileInfo" \in DOMAIN image
            THEN _get_xml_text(image["fileInfo"], "fileSizeInBytes") ELSE ""
        file_info ==
            IF "fileInfo" \in DOMAIN image
            THEN [ name          |-> _get_xml_text(image["fileInfo"], "fileName"),
                   size_bytes    |-> IntOrZero(sizeText),
                   last_modified |-> _get_xml_text(image["fileInfo"], "fileLastModified") ]
            ELSE << >>
        status_info ==
            IF "statusInfo" \in DOMAIN image
            THEN [ success |-> _get_xml_text(image["statusInfo"], "success") = "True" ]
            ELSE << >>
        tests == IF "tests" \in DOMAIN image THEN ParseTests(image["tests"]) ELSE << >>
        fsels == Get(image, "fileSystems", << >>)
        filesystems == [i \in 1..Len(fsels) |-> ParseFs(fsels[i])]
        raises == \/ IntRaises(sizeText)
                  \/ \E i \in 1..Len(fsels) : FsRaises(fsels[i])
    IN  IF raises
        THEN [error |-> "Unexpected parsing error", error_type |-> "unknown_error"]
        ELSE [ tool_info |-> tool_info,
               file_info |-> file_info,
               valid_iso9660 |-> \E i \in 1..Len(filesystems) : filesystems[i].type = "ISO 9660",
               has_udf |-> \E i \in 1..Len(filesystems) : filesystems[i].type = "UDF",
               status_success |-> Get(status_info, "success", FALSE),
               size_as_expected |-> Get(tests, "size_as_expected", FALSE),
               size_difference_bytes |-> Get(tests, "size_difference", 0),
               size_difference_sectors |-> Get(tests, "size_difference_sectors", 0),
               size_expected |-> Get(tests, "size_expected", 0),
               size_actual |-> Get(tests, "size_actual", 0),
               contains_known_filesystem |-> Get(tests, "contains_known_filesystem", TRUE),
               smaller_than_expected |-> Get(tests, "smaller_than_expected", FALSE),
               filesystems |-> filesystems,
               tests |-> tests,
               warnings |-> CompileWarnings(tests) ]

\* ------------------------------------------------------------ the manifest
\* JSON null
Null == "null"

\* the configuration strings of the run (BackupConfig)
Operator == "JD"
DiskId == "disk2"
VolumeName == "VOL"
IsoName == "disc.iso"

\* format_bytes: the value in tenths of the unit, and the unit
FormatBytes(n) ==
    LET Tenths(v, d) == (2 * 10 * v + d) \div (2 * d)
    IN  IF n < 1024 THEN << Tenths(n, 1), "B" >>
        ELSE IF n < 1024 * 1024 THEN << Tenths(n, 1024), "KB" >>
        ELSE IF n < 1024 * 1024 * 1024 THEN << Tenths(n, 1024 * 1024), "MB" >>
        ELSE IF n < 1024 * 1024 * 1024 * 1024 THEN << Tenths(n, 1024 * 1024 * 1024), "GB" >>
        ELSE << Tenths(n, 1024 * 1024 * 1024 * 1024), "TB" >>

\* _format_duration folding the minutes beyond 59 into hours
_format_duration_Hours(seconds) ==
    IF seconds = 0 THEN << "0 seconds" >>
    ELSE LET minutes == seconds \div 60
             remaining_seconds == seconds % 60
         IN  IF minutes >= 60
             THEN << minutes \div 60, "hours", minutes % 60, "minutes",
                     remaining_seconds, "seconds" >>
             ELSE IF minutes > 0
             THEN << minutes, "minutes", remaining_seconds, "seconds" >>
             ELSE << remaining_seconds, "seconds" >>

\* _format_duration, on whole seconds
_format_duration(seconds) ==
    IF seconds = 0 THEN << "0 seconds" >>
    ELSE LET minutes == seconds \div 60
             remaining_seconds == seconds % 60
         IN  IF minutes > 0
             THEN << minutes, "minutes", remaining_seconds, "seconds" >>
             ELSE << remaining_seconds, "seconds" >>

\* BackupResult.speed_mb_s, in hundredths of a MB/s
speed_mb_s(r, duration) ==
    IF duration > 0
    THEN (2 * 100 * r.disk_size + duration * 1024 * 1024) \div (2 * duration * 1024 * 1024)
    ELSE 0

\* a / b on Python numbers, kept as the fraction num / den; b = 0 raises
\* ZeroDivisionError
TrueDiv(a, b) == [raised |-> b = 0, num |-> a, den |-> b]

\* int(x) of a fraction with a positive denominator: truncation towards zero
IntTrunc(num, den) ==
    IF num >= 0 THEN num \div den ELSE 0 - ((0 - num) \div den)

Max(a, b) == IF a > b THEN a ELSE b

\* _display_progress without the max(0, ...) around the remaining bytes
_display_progress_NoClamp(current, total, elapsed) ==
    LET speed == IF elapsed > 0 THEN TrueDiv(current * TicksPerSecond, elapsed)
                 ELSE TrueDiv(0, 1)
        remaining == total - current
        speed_positive == ~speed.raised /\ speed.num > 0
        eta == IF speed_positive THEN TrueDiv(remaining * speed.den, speed.num)
               ELSE TrueDiv(0, 1)
        raised == speed.raised \/ eta.raised
    IN  [ raised |-> raised,
          current |-> current,
          total |-> total,
          elapsed |-> IntTrunc(elapsed, TicksPerSecond),
          remaining |-> IF raised THEN 0 ELSE IntTrunc(eta.num, eta.den),
          speed |-> IF raised THEN 0 ELSE IntTrunc(speed.num, speed.den) ]

\* _display_progress: the four lines shown for current bytes of total after
\* elapsed ticks of the clock: elapsed and remaining as whole seconds, the
\* speed in whole bytes per second
_display_progress(current, total, elapsed) ==
    LET speed == IF elapsed > 0 THEN TrueDiv(current * TicksPerSecond, elapsed)
                 ELSE TrueDiv(0, 1)
        remaining == Max(0, total - current)
        speed_positive == ~speed.raised /\ speed.num > 0
        eta == IF speed_positive THEN TrueDiv(remaining * speed.den, speed.num)
               ELSE TrueDiv(0, 1)
        raised == speed.raised \/ eta.raised
    IN  [ raised |-> raised,
          current |-> current,
          total |-> total,
          elapsed |-> IntTrunc(elapsed, TicksPerSecond),
          remaining |-> IF raised THEN 0 ELSE IntTrunc(eta.num, eta.den),
          speed |-> IF raised THEN 0 ELSE IntTrunc(speed.num, speed.den) ]

\* _extract_tree_summary: the totals line of the tree listing, {} without one
_extract_tree_summary(files) ==
    IF files["tree"].exists /\ Len(files["tree"].data) > 0
    THEN [total_directories |-> 1, total_files |-> 1, reported_size |-> "4k"]
    ELSE << >>

\* _extract_filesystem_info: type and the details that are there
_extract_filesystem_info(iso_analysis) ==
    LET fss == Get(iso_analysis, "filesystems", << >>)
        Detail(f) ==
            IF f.type = "ISO 9660" /\ "volume_identifier" \in DOMAIN f
            THEN [ volume_identifier |-> f.volume_identifier,
                   creation_date |-> f.volume_creation_date,
                   publisher |-> f.publisher,
                   data_preparer |-> f.data_preparer,
                   logical_block_size |-> f.logical_block_size,
                   volume_space_size |-> f.volume_space_size ]
            ELSE IF f.type = "UDF" /\ "logical_volume_identifier" \in DOMAIN f
            THEN [ logical_volume_identifier |-> f.logical_volume_identifier,
                   logical_block_size |-> f.logical_block_size,
                   implementation |-> f.implementation ]
            ELSE << >>
    IN  [i \in 1..Len(fss) |-> [type |-> fss[i].type, details |-> Detail(fss[i])]]

\* ManifestBackupMetadata with the build time stamped into the tool version
ManifestBackupMetadata_Stamped(cfg, now, uuid) ==
    [ run_id |-> << now, Operator, DiskId >>,
      uuid |-> uuid,
      tool_name |-> "Optical Disc ISO Backup Utility",
      tool_version |-> << "v14-streamlined", now >>,
      created |-> now,
      operator |-> Operator,
      dry_run |-> cfg.dry_run ]

\* _create_manifest: the manifest dictionary, section by section
ManifestBackupMetadata(cfg, now, uuid) ==
    [ run_id |-> << now, Operator, DiskId >>,
      uuid |-> uuid,
      tool_name |-> "Optical Disc ISO Backup Utility",
      tool_version |-> "v14-streamlined",
      created |-> now,
      operator |-> Operator,
      dry_run |-> cfg.dry_run ]

ManifestBackupStatus(r, cfg, iso_exists) ==
    [ overall_status |-> IF r.success THEN "success" ELSE "failed",
      iso_created |-> iso_exists,
      verification_performed |-> ~cfg.no_verification /\ ~cfg.dry_run,
      verification_passed |->
          IF checksum_match(r) # "None" THEN checksum_match(r) ELSE "skipped",
      errors |-> IF r.error_message # "" THEN r.error_message ELSE Null ]

\* ManifestSourceDisc with .get(key) and no default for the media type
ManifestSourceDisc_NoDefault(di) ==
    [ disk_identifier |-> DiskId,
      device_path |-> "/dev/disk2",
      raw_device_path |-> "/dev/rdisk2",
      volume_name |-> VolumeName,
      media_type |-> Get(di, "OpticalMediaType", Null),
      filesystem |-> Get(di, "FilesystemName", Get(di, "FilesystemType", "Unknown")),
      drive_model |-> Get(di, "MediaName", Get(di, "IORegistryEntryName", "Unknown")),
      drive_capabilities |-> Get(di, "OpticalDeviceType", "Unknown"),
      connection_type |-> Get(di, "BusProtocol", "Unknown"),
      erasable |-> Get(di, "OpticalMediaErasable", FALSE),
      read_only |-> ~Get(di, "Writable", TRUE) ]

ManifestSourceDisc(di) ==
    [ disk_identifier |-> DiskId,
      device_path |-> "/dev/disk2",
      raw_device_path |-> "/dev/rdisk2",
      volume_name |-> VolumeName,
      media_type |-> Get(di, "OpticalMediaType", "Unknown"),
      filesystem |-> Get(di, "FilesystemName", Get(di, "FilesystemType", "Unknown")),
      drive_model |-> Get(di, "MediaName", Get(di, "IORegistryEntryName", "Unknown")),
      drive_capabilities |-> Get(di, "OpticalDeviceType", "Unknown"),
      connection_type |-> Get(di, "BusProtocol", "Unknown"),
      erasable |-> Get(di, "OpticalMediaErasable", FALSE),
      read_only |-> ~Get(di, "Writable", TRUE) ]

ManifestVolumeInformation(r, di) ==
    [ total_size_bytes |-> r.disk_size,
      total_size_formatted |-> FormatBytes(r.disk_size),
      used_space_bytes |-> Get(di, "VolumeSize", r.disk_size),
      used_space_formatted |-> FormatBytes(Get(di, "VolumeSize", r.disk_size)),
      allocation_block_size |->
          Get(di, "VolumeAllocationBlockSize", Get(di, "DeviceBlockSize", "Unknown")),
      mount_point |-> Get(di, "MountPoint", "/Volumes/VOL") ]

ManifestOutputFiles(iso_exists, iso_file_size) ==
    [ iso_filename |-> IsoName,
      iso_file_size_bytes |-> iso_file_size,
      iso_file_size_formatted |->
          IF iso_exists /\ iso_file_size # 0
          THEN FormatBytes(iso_file_size) ELSE << Null >>,
      output_directory |-> "/out",
      log_filename |-> "disc.iso.log.txt",
      tree_filename |-> "disc_tree.txt",
      isolyzer_filename |-> "disc_isolyzer.xml",
      manifest_filename |-> "disc_manifest.json" ]

ManifestOperationsPerformed(cfg, tree_summary) ==
    [ tree_listing |-> [ output_file |-> "disc_tree.txt", summary |-> tree_summary ],
      disk_unmount |-> [ command |-> "diskutil unmountDisk /dev/disk2",
                         status |-> IF ~cfg.dry_run THEN "success" ELSE "skipped" ],
      iso_creation |-> [ block_size |-> "4MB", performed |-> ~cfg.dry_run ],
      verification |-> [ algorithm |-> "MD5",
                         performed |-> ~cfg.no_verification /\ ~cfg.dry_run ],
      finalization |-> [ status |-> IF ~cfg.dry_run THEN "completed" ELSE "skipped" ] ]

ManifestTimingPerformance(r) ==
    [ iso_creation |-> [ duration_seconds |-> r.creation_time,
                         duration_formatted |-> _format_duration(r.creation_time),
                         average_speed_mb_s |-> speed_mb_s(r, r.creation_time) ],
      verification |-> [ duration_seconds |-> 0,
                         duration_formatted |-> "Performed during creation" ],
      total_operation |-> [ duration_seconds |-> r.creation_time,
                            duration_formatted |-> _format_duration(r.creation_time) ] ]

ManifestIntegrityVerification(r) ==
    [ hash_algorithm |-> "MD5",
      hash_length_bits |-> 128,
      iso_hash |-> r.md5_iso,
      source_hash |-> r.md5_raw,
      hashes_match |-> checksum_match(r),
      verification_method |-> "Parallel hash calculation during creation",
      integrity_status |->
          IF checksum_match(r) = "True" THEN "verified"
          ELSE IF checksum_match(r) = "False" THEN "failed" ELSE "not_performed",
      notes |-> IF checksum_match(r) = "True"
                THEN "ISO verified as bit-perfect copy" ELSE Null ]

\* ManifestStructuralAnalysis with the test for an error record left out
ManifestStructuralAnalysis_IgnoreError(ia) ==
    [ tool_used |-> Get(Get(ia, "tool_info", << >>), "name", "isolyzer"),
      tool_version |-> Get(Get(ia, "tool_info", << >>), "version", "unknown"),
      analysis_performed |-> ~Get(ia, "skipped", FALSE),
      analysis_successful |-> Get(ia, "status_success", FALSE),
      valid_iso9660 |-> Get(ia, "valid_iso9660", FALSE),
      contains_udf |-> Get(ia, "has_udf", FALSE),
      size_validation |->
          [ size_as_expected |-> Get(ia, "size_as_expected", TRUE),
            size_expected_bytes |-> Get(ia, "size_expected", 0),
            size_actual_bytes |-> Get(ia, "size_actual", 0),
            size_difference_bytes |-> Get(ia, "size_difference_bytes", 0),
            size_difference_sectors |-> Get(ia, "size_difference_sectors", 0),
            smaller_than_expected |-> Get(ia, "smaller_than_expected", FALSE),
            contains_known_filesystem |-> Get(ia, "contains_known_filesystem", TRUE),
            note |-> IF Get(ia, "size_difference_bytes", 0) > 0
                     THEN "Small differences (1-2 sectors) are normal for optical media"
                     ELSE Null ],
      filesystems_detected |-> _extract_filesystem_info(ia),
      warnings |-> Get(ia, "warnings", << >>),
      error |-> IF "error" \in DOMAIN ia THEN ia["error"] ELSE Null,
      xml_field_mappings |-> "documentation of the XML paths" ]

ManifestStructuralAnalysis(ia) ==
    [ tool_used |-> Get(Get(ia, "tool_info", << >>), "name", "isolyzer"),
      tool_version |-> Get(Get(ia, "tool_info", << >>), "version", "unknown"),
      analysis_performed |-> ~Get(ia, "skipped", FALSE) /\ "error" \notin DOMAIN ia,
      analysis_successful |-> Get(ia, "status_success", FALSE),
      valid_iso9660 |-> Get(ia, "valid_iso9660", FALSE),
      contains_udf |-> Get(ia, "has_udf", FALSE),
      size_validation |->
          [ size_as_expected |-> Get(ia, "size_as_expected", TRUE),
            size_expected_bytes |-> Get(ia, "size_expected", 0),
            size_actual_bytes |-> Get(ia, "size_actual", 0),
            size_difference_bytes |-> Get(ia, "size_difference_bytes", 0),
            size_difference_sectors |-> Get(ia, "size_difference_sectors", 0),
            smaller_than_expected |-> Get(ia, "smaller_than_expected", FALSE),
            contains_known_filesystem |-> Get(ia, "contains_known_filesystem", TRUE),
            note |-> IF Get(ia, "size_difference_bytes", 0) > 0
                     THEN "Small differences (1-2 sectors) are normal for optical media"
                     ELSE Null ],
      filesystems_detected |-> _extract_filesystem_info(ia),
      warnings |-> Get(ia, "warnings", << >>),
      error |-> IF "error" \in DOMAIN ia THEN ia["error"] ELSE Null,
      xml_field_mappings |-> "documentation of the XML paths" ]

ManifestTechnicalDetails(di) ==
    [ source_device_properties |->
          [ device_identifier |-> Get(di, "DeviceIdentifier", Null),
            device_node |-> Get(di, "DeviceNode", Null),
            ejectable |-> Get(di, "Ejectable", Null),
            removable |-> Get(di, "Removable", Null),
            internal |-> Get(di, "Internal", Null),
            smart_status |-> Get(di, "SMARTStatus", Null),
            bootable |-> Get(di, "Bootable", Null),
            writable |-> Get(di, "Writable", Null) ],
      backup_parameters |-> [ dd_block_size |-> "4MB", read_device |-> "/dev/rdisk2" ] ]

\* the platform module's answers are those of the machine, the same all run
ManifestSystemEnvironment ==
    [ operating_system |-> "Darwin",
      os_version |-> "release",
      kernel_version |-> "version",
      machine_architecture |-> "arm64",
      processor |-> "arm",
      hostname |-> "host",
      python_version |-> "3",
      user_context |-> "sudo required for raw device access" ]

ManifestQualityAssurance(r, ia) ==
    [ verification_levels |->
        << [ type |-> "bit_perfect_copy",
             status |-> IF checksum_match(r) = "True" THEN "verified" ELSE "failed",
             confidence |-> IF checksum_match(r) = "True" THEN "100%" ELSE "0%" ],
           [ type |-> "structural_integrity",
             status |->
                 IF Get(ia, "valid_iso9660", FALSE) /\ Get(ia, "status_success", FALSE)
                 THEN "verified"
                 ELSE IF Get(ia, "error", "") # "" THEN "failed" ELSE "not_performed",
             confidence |-> IF Get(ia, "valid_iso9660", FALSE) THEN "high" ELSE "unknown" ] >>,
      recommended_verifications |-> "four recommendations",
      backup_best_practices |-> "four practices",
      manifest_notes |-> "comprehensive backup documentation" ]

\* the manifest assembled from the result, the disk metadata, the analysis,
\* the configuration, the clock, a fresh uuid4 and the files on disk
_create_manifest(r, di, ia, cfg, now, uuid, files) ==
    LET iso_exists == files["iso"].exists
        iso_file_size == IF iso_exists THEN Len(files["iso"].data) ELSE Null
    IN  [ backup_metadata |-> ManifestBackupMetadata(cfg, now, uuid),
          backup_status |-> ManifestBackupStatus(r, cfg, iso_exists),
          source_disc |-> ManifestSourceDisc(di),
          volume_information |-> ManifestVolumeInformation(r, di),
          output_files |-> ManifestOutputFiles(iso_exists, iso_file_size),
          operations_performed |->
              ManifestOperationsPerformed(cfg, _extract_tree_summary(files)),
          timing_performance |-> ManifestTimingPerformance(r),
          integrity_verification |-> ManifestIntegrityVerification(r),
          structural_analysis |-> ManifestStructuralAnalysis(ia),
          system_environment |-> ManifestSystemEnvironment,
          technical_details |-> ManifestTechnicalDetails(di),
          quality_assurance |-> ManifestQualityAssurance(r, ia) ]

\* the sections of the manifest dictionary, in the order the dict literal
\* inserts them
ManifestSections ==
    << "backup_metadata", "backup_status", "source_disc", "volume_information",
       "output_files", "operations_performed", "timing_performance",
       "integrity_verification", "structural_analysis", "system_environment",
       "technical_details", "quality_assurance" >>

\* the keys of each section, in the order its dict literal inserts them
SectionKeys ==
    [ backup_metadata |->
          << "run_id", "uuid", "tool_name", "tool_version", "created", "operator",
             "dry_run" >>,
      backup_status |->
          << "overall_status", "iso_created", "verification_performed",
             "verification_passed", "errors" >>,
      source_disc |->
          << "disk_identifier", "device_path", "raw_device_path", "volume_name",
             "media_type", "filesystem", "drive_model", "drive_capabilities",
             "connection_type", "erasable", "read_only" >>,
      volume_information |->
          << "total_size_bytes", "total_size_formatted", "used_space_bytes",
             "used_space_formatted", "allocation_block_size", "mount_point" >>,
      output_files |->
          << "iso_filename", "iso_file_size_bytes", "iso_file_size_formatted",
             "output_directory", "log_filename", "tree_filename",
             "isolyzer_filename", "manifest_filename" >>,
      operations_performed |->
          << "tree_listing", "disk_unmount", "iso_creation", "verification",
             "finalization" >>,
      timing_performance |->
          << "iso_creation", "verification", "total_operation" >>,
      integrity_verification |->
          << "hash_algorithm", "hash_length_bits", "iso_hash", "source_hash",
             "hashes_match", "verification_method", "integrity_status", "notes" >>,
      structural_analysis |->
          << "tool_used", "tool_version", "analysis_performed",
             "analysis_successful", "valid_iso9660", "contains_udf",
             "size_validation", "filesystems_detected", "warnings", "error",
             "xml_field_mappings" >>,
      system_environment |->
          << "operating_system", "os_version", "kernel_version",
             "machine_architecture", "processor", "hostname", "python_version",
             "user_context" >>,
      technical_details |->
          << "source_device_properties", "backup_parameters" >>,
      quality_assurance |->
          << "verification_levels", "recommended_verifications",
             "backup_best_practices", "manifest_notes" >> ]

\* every key of the manifest in the order sorted() gives (by code point)
KeysSorted ==
    << "allocation_block_size", "analysis_performed", "analysis_successful",
       "backup_best_practices", "backup_metadata", "backup_parameters",
       "backup_status", "connection_type", "contains_udf", "created",
       "device_path", "disk_identifier", "disk_unmount", "drive_capabilities",
       "drive_model", "dry_run", "erasable", "error", "errors", "filesystem",
       "filesystems_detected", "finalization", "hash_algorithm",
       "hash_length_bits", "hashes_match", "hostname", "integrity_status",
       "integrity_verification", "iso_created", "iso_creation",
       "iso_file_size_bytes", "iso_file_size_formatted", "iso_filename",
       "iso_hash", "isolyzer_filename", "kernel_version", "log_filename",
       "machine_architecture", "manifest_filename", "manifest_notes", "media_type",
       "mount_point", "notes", "operating_system", "operations_performed",
       "operator", "os_version", "output_directory", "output_files",
       "overall_status", "processor", "python_version", "quality_assurance",
       "raw_device_path", "read_only", "recommended_verifications", "run_id",
       "size_validation", "source_device_properties", "source_disc", "source_hash",
       "structural_analysis", "system_environment", "technical_details",
       "timing_performance", "tool_name", "tool_used", "tool_version",
       "total_operation", "total_size_bytes", "total_size_formatted",
       "tree_filename", "tree_listing", "used_space_bytes", "used_space_formatted",
       "user_context", "uuid", "valid_iso9660", "verification",
       "verification_levels", "verification_method", "verification_passed",
       "verification_performed", "volume_information", "volume_name", "warnings",
       "xml_field_mappings" >>

\* sorted(keys)
Sorted(keys) ==
    SelectSeq(KeysSorted, LAMBDA k : \E i \in 1..Len(keys) : keys[i] = k)

\* the sections and the keys of each section as sorted() orders them
SortedSections == Sorted(ManifestSections)
SortedSectionKeys == [sec \in DOMAIN SectionKeys |-> Sorted(SectionKeys[sec])]

\* json_dump with the keys sorted whatever sort_keys says
json_dump_Sorted(manifest, sort_keys) ==
    LET layout == [ i \in 1..Len(ManifestSections) |->
                      LET sec == SortedSections[i]
                      IN  << sec, SortedSectionKeys[sec] >> ]
    IN  << manifest, layout >>

\* json.dump(manifest, f, indent=2, sort_keys=sort_keys): the file holds the
\* dictionary, its sections and their keys laid out in insertion order, or
\* in sorted order when sort_keys is set
json_dump(manifest, sort_keys) ==
    LET sections == IF sort_keys THEN SortedSections ELSE ManifestSections
        keys == IF sort_keys THEN SortedSectionKeys ELSE SectionKeys
        layout == [ i \in 1..Len(sections) |-> << sections[i], keys[sections[i]] >> ]
    IN  << manifest, layout >>

\* create_formatted_log: the parts of the log that depend on the run
create_formatted_log(cfg, r, files) ==
    [ status |-> IF r.success THEN "SUCCESS" ELSE "FAILED",
      verification |->
          IF checksum_match(r) = "None" THEN Null
          ELSE IF checksum_match(r) = "True" THEN "PASS" ELSE "FAIL",
      volume_size |-> r.disk_size,
      iso_file_size |-> IF files["iso"].exists THEN << Len(files["iso"].data) >> ELSE << >>,
      disk_unmount_status |-> "Success",
      speed |-> speed_mb_s(r, r.creation_time),
      verification_results |-> Truthy(r.md5_iso) /\ Truthy(r.md5_raw),
      structure_analysis_complete |-> files["isolyzer"].exists,
      finalization_status |-> "Complete" ]

\* ---------------------------------------------------------- environment
\* what `diskutil info -plist` can answer: {} on failure, a full dictionary
\* for a disc of size bytes, or one with no optional key and no TotalSize
FullDiskInfo(size) ==
    [ TotalSize |-> size, OpticalMediaType |-> "CD-ROM", FilesystemName |-> "ISO 9660",
      MediaName |-> "SuperDrive", OpticalDeviceType |-> "CD-R", BusProtocol |-> "USB",
      OpticalMediaErasable |-> FALSE, Writable |-> FALSE, VolumeSize |-> size,
      VolumeAllocationBlockSize |-> 2048, MountPoint |-> "/Volumes/VOL",
      DeviceIdentifier |-> DiskId, DeviceNode |-> "/dev/disk2", Ejectable |-> TRUE,
      Removable |-> TRUE, Internal |-> FALSE, SMARTStatus |-> "Not Supported",
      Bootable |-> FALSE ]
MinimalDiskInfo == [ DeviceIdentifier |-> DiskId ]
DiskInfos == {<< >>, MinimalDiskInfo, FullDiskInfo(MaxLen)}

\* reports the validator can print
FullXml(asExpected) ==
    [ wellformed |-> TRUE,
      root |-> [ toolInfo |-> [ toolName |-> "isolyzer", toolVersion |-> "1.4.0" ],
                 image |->
                   [ fileInfo |-> [ fileName |-> IsoName, fileSizeInBytes |-> "2048",
                                    fileLastModified |-> "today" ],
                     statusInfo |-> [ success |-> " True " ],
                     tests |-> [ containsKnownFileSystem |-> "True",
                                 sizeExpected |-> "2048",
                                 sizeActual |-> IF asExpected THEN "2048" ELSE "0",
                                 sizeDifference |-> IF asExpected THEN "0" ELSE "2048",
                                 sizeDifferenceSectors |-> IF asExpected THEN "0" ELSE "1",
                                 sizeAsExpected |-> IF asExpected THEN "True" ELSE "False",
                                 smallerThanExpected |-> IF asExpected THEN "False" ELSE "True" ],
                     fileSystems |->
                       << [ TYPE |-> "ISO 9660",
                            primaryVolumeDescriptor |->
                              [ volumeIdentifier |-> VolumeName,
                                volumeCreationDateAndTime |-> "today",
                                publisherIdentifier |-> "",
                                dataPreparerIdentifier |-> " ",
                                logicalBlockSize |-> "2048",
                                volumeSpaceSize |-> "1" ] ] >> ] ] ]
BareXml == [ wellformed |-> TRUE, root |-> [ image |-> << >> ] ]
NoImageXml == [ wellformed |-> TRUE, root |-> [ toolInfo |-> << >> ] ]
BadSizeXml ==
    [ wellformed |-> TRUE,
      root |-> [ image |-> [ fileInfo |-> [ fileSizeInBytes |-> "n/a" ] ] ] ]
MalformedXml == [ wellformed |-> FALSE, root |-> << >> ]
XmlDocs == {FullXml(TRUE), FullXml(FALSE), BareXml, NoImageXml, BadSizeXml, MalformedXml}

\* the reports the validator prints in the runs of the model
RunXmlDocs == XmlDocs

\* the readings of the clock
Clock == {0, MaxTime}

\* what running the validator can end in
ValidatorOutcomes == {"ran", "execution_failed", "not_found", "other_error"}

\* str.lower() on the answers of the model
Lower(t) == IF t = "Y" THEN "y" ELSE t
Responses == {"y", "Y", "n", ""}

\* ----------------------------------------------------------------- state
VARIABLES
    pc,               \* where the run is
    config,           \* BackupConfig: dry_run, no_verification
    fs,               \* the files of the output directory
    fs_before,        \* fs as it was when the run started
    source,           \* the bytes dd delivers on its stdout
    src_pos,          \* how many of them have been read
    chunk,            \* the block last read
    iso_hasher,       \* hashlib.md5 accumulators
    raw_hasher,
    bytes_written,
    progress_updates, \* calls of _display_progress
    returncode,       \* proc.returncode of dd
    disk_info,
    disk_size,
    unmounted,        \* outcome of diskutil unmountDisk
    finalized,        \* _finalize_disk has run
    creation_time,
    md5_iso,
    md5_raw,
    validator,        \* how the run of isolyzer ended
    iso_analysis,
    result,           \* the BackupResult create_backup returned
    error,            \* the exception or sys.exit that ended the run early
    exit_code,        \* the exit status of the process, -1 while it runs
    manifest_writes,  \* times the manifest file was written
    call,             \* a method called on its own: its name and arguments
    ret               \* what that call returned

vars == << pc, config, fs, fs_before, source, src_pos, chunk, iso_hasher, raw_hasher,
           bytes_written, progress_updates, returncode, disk_info, disk_size, unmounted, finalized,
           creation_time, md5_iso, md5_raw, validator, iso_analysis, result, error,
           exit_code, manifest_writes, call, ret >>

copyVars == << source, src_pos, chunk, iso_hasher, raw_hasher, bytes_written,
               progress_updates, returncode >>
envVars == << config, fs_before, call, ret >>

NoError == [type |-> "none", message |-> ""]
NoCall == [fn |-> "none"]
NoRet == [done |-> FALSE]

\* proc.returncode while dd has not been waited for (None)
NoReturncode == -1

\* the locals of create_backup and of the copy before anything has run
Fresh ==
    /\ src_pos = 0
    /\ chunk = << >>
    /\ iso_hasher = MD5New
    /\ raw_hasher = MD5New
    /\ bytes_written = 0
    /\ progress_updates = 0
    /\ returncode = NoReturncode
    /\ disk_info = << >>
    /\ disk_size = 0
    /\ unmounted = "not_run"
    /\ finalized = FALSE
    /\ creation_time = 0
    /\ md5_iso = None
    /\ md5_raw = None
    /\ validator = "not_run"
    /\ iso_analysis = << >>
    /\ result = NoResult
    /\ error = NoError
    /\ exit_code = -1
    /\ manifest_writes = 0

Init ==
    /\ pc = "start"
    /\ config \in [dry_run : BOOLEAN, no_verification : BOOLEAN]
    /\ \E prior \in BOOLEAN :
          /\ fs = FsBefore(prior)
          /\ fs_before = fs
    /\ source \in SeqsUpTo(MaxLen)
    /\ config.dry_run => source = << >>
    /\ Fresh
    /\ call = NoCall
    /\ ret = NoRet

\* ---------------------------------------------------------------- actions
\* create_backup returns r to main
Return(r) ==
    /\ result' = r
    /\ pc' = "main_exit"
    /\ UNCHANGED << error, exit_code >>

\* an exception nothing catches leaves main: the interpreter prints it and
\* exits with status 1
RaiseUncaught(type, message) ==
    /\ error' = [type |-> type, message |-> message]
    /\ exit_code' = 1
    /\ pc' = "exited"
    /\ UNCHANGED result

\* sys.exit(status) from inside the run
SysExit(status, message) ==
    /\ error' = [type |-> "SystemExit", message |-> message]
    /\ exit_code' = status
    /\ pc' = "exited"
    /\ UNCHANGED result

\* create_backup: the root check
CheckRoot ==
    /\ pc = "start"
    /\ \E is_root \in BOOLEAN :
          IF ~is_root
          THEN Return(BackupResult(FALSE, 0, None, None, 0, "Not running as root"))
          ELSE /\ pc' = "get_disk_info"
               /\ UNCHANGED << result, error, exit_code >>
    /\ UNCHANGED << envVars, fs, copyVars, disk_info, disk_size, unmounted, finalized,
                    creation_time, md5_iso, md5_raw, validator, iso_analysis,
                    manifest_writes >>

\* create_backup: _get_disk_info and the TotalSize read from it
GetDiskInfo ==
    /\ pc = "get_disk_info"
    /\ \E di \in DiskInfos :
          /\ disk_info' = di
          /\ IF DOMAIN di = {}
             THEN /\ Return(BackupResult(FALSE, 0, None, None, 0, "Could not get disk info"))
                  /\ UNCHANGED disk_size
             ELSE /\ disk_size' = Get(di, "TotalSize", 0)
                  /\ pc' = "check_existing"
                  /\ UNCHANGED << result, error, exit_code >>
    /\ UNCHANGED << envVars, fs, copyVars, unmounted, finalized, creation_time, md5_iso,
                    md5_raw, validator, iso_analysis, manifest_writes >>

\* _confirm_overwrite: the answer, lowered, is 'y'
_confirm_overwrite(response) == Lower(response) = "y"

\* CheckExisting with the tree listing generated before the check
CheckExisting_TreeFirst ==
    /\ pc = "check_existing"
    /\ fs' = [fs EXCEPT !["dir"]  = File(<< >>),
                        !["tree"] = File(<< "listing", "totals" >>)]
    /\ IF fs["iso"].exists
       THEN \/ \E response \in Responses :
                 IF ~_confirm_overwrite(response)
                 THEN Return(BackupResult(FALSE, disk_size, None, None, 0,
                                          "Aborted to avoid overwrite"))
                 ELSE /\ pc' = "prepare"
                      /\ UNCHANGED << result, error, exit_code >>
            \/ SysExit(1, "Cancelled by user.")
       ELSE /\ pc' = "prepare"
            /\ UNCHANGED << result, error, exit_code >>
    /\ UNCHANGED << envVars, copyVars, disk_info, disk_size, unmounted, finalized,
                    creation_time, md5_iso, md5_raw, validator, iso_analysis,
                    manifest_writes >>

\* create_backup: the check for an existing image; get_input turns Ctrl-C at
\* the prompt into sys.exit(1)
CheckExisting ==
    /\ pc = "check_existing"
    /\ IF fs["iso"].exists
       THEN \/ \E response \in Responses :
                 IF ~_confirm_overwrite(response)
                 THEN Return(BackupResult(FALSE, disk_size, None, None, 0,
                                          "Aborted to avoid overwrite"))
                 ELSE /\ pc' = "prepare"
                      /\ UNCHANGED << result, error, exit_code >>
            \/ SysExit(1, "Cancelled by user.")
       ELSE /\ pc' = "prepare"
            /\ UNCHANGED << result, error, exit_code >>
    /\ UNCHANGED << envVars, fs, copyVars, disk_info, disk_size, unmounted, finalized,
                    creation_time, md5_iso, md5_raw, validator, iso_analysis,
                    manifest_writes >>

\* create_backup: output_dir.mkdir(parents, exist_ok) and _generate_tree_listing
PrepareOutput ==
    /\ pc = "prepare"
    /\ fs' = [fs EXCEPT !["dir"]  = File(<< >>),
                        !["tree"] = File(<< "listing", "totals" >>)]
    /\ pc' = IF config.dry_run THEN "dry_run" ELSE "unmount"
    /\ UNCHANGED << envVars, copyVars, disk_info, disk_size, unmounted, finalized,
                    creation_time, md5_iso, md5_raw, validator, iso_analysis, result,
                    error, exit_code, manifest_writes >>

\* _unmount_disk: create_backup drops the value it returns
_unmount_disk ==
    /\ pc = "unmount"
    /\ \E ok \in BOOLEAN : unmounted' = IF ok THEN "success" ELSE "failed"
    /\ pc' = "open"
    /\ UNCHANGED << envVars, fs, copyVars, disk_info, disk_size, finalized,
                    creation_time, md5_iso, md5_raw, validator, iso_analysis, result,
                    error, exit_code, manifest_writes >>

\* create_backup: the dry-run branch
DryRun ==
    /\ pc = "dry_run"
    /\ creation_time' = 0
    /\ md5_iso' = DryRunHash
    /\ md5_raw' = DryRunHash
    /\ iso_analysis' = [skipped |-> TRUE, reason |-> "dry run"]
    /\ pc' = "finalize"
    /\ UNCHANGED << envVars, fs, copyVars, disk_info, disk_size, unmounted, finalized,
                    validator, result, error, exit_code, manifest_writes >>

\* ------------------------------------------------- _create_and_verify_iso
restVars == << disk_info, disk_size, unmounted, finalized, creation_time, md5_iso,
               md5_raw, validator, iso_analysis, manifest_writes >>

\* the accumulators and the counter are created, the image is opened 'wb'
\* (created or truncated) and dd is started
OpenIso ==
    /\ pc = "open"
    /\ iso_hasher' = MD5New
    /\ raw_hasher' = MD5New
    /\ bytes_written' = 0
    /\ fs' = [fs EXCEPT !["iso"] = File(<< >>)]
    /\ pc' = "read"
    /\ UNCHANGED << envVars, source, src_pos, chunk, progress_updates, returncode,
                    restVars,
                    result, error, exit_code >>

\* ReadBlock with the progress display refreshed once more at end of stream
ReadBlock_ProgressAtEnd ==
    /\ pc = "read"
    /\ \/ /\ src_pos < Len(source)
          /\ \E k \in 1..Min(BlockSize, Len(source) - src_pos) :
                /\ chunk' = SubSeq(source, src_pos + 1, src_pos + k)
                /\ src_pos' = src_pos + k
          /\ pc' = "write"
          /\ UNCHANGED << progress_updates, result, error, exit_code >>
       \/ /\ src_pos = Len(source)
          /\ chunk' = << >>
          /\ progress_updates' = progress_updates + 1
          /\ pc' = "dd_wait"
          /\ UNCHANGED << src_pos, result, error, exit_code >>
       \/ /\ RaiseUncaught("OSError", "read failed")
          /\ UNCHANGED << src_pos, chunk, progress_updates >>
    /\ UNCHANGED << envVars, fs, source, returncode, iso_hasher, raw_hasher, bytes_written,
                    restVars >>

\* ReadBlock leaving the loop on a short block as well as on an empty one
ReadBlock_BreakOnShort ==
    /\ pc = "read"
    /\ \/ /\ src_pos < Len(source)
          /\ \E k \in 1..Min(BlockSize, Len(source) - src_pos) :
                /\ chunk' = SubSeq(source, src_pos + 1, src_pos + k)
                /\ src_pos' = src_pos + k
                /\ pc' = IF k < BlockSize THEN "dd_wait" ELSE "write"
          /\ UNCHANGED << result, error, exit_code >>
       \/ /\ src_pos = Len(source)
          /\ chunk' = << >>
          /\ pc' = "dd_wait"
          /\ UNCHANGED << src_pos, result, error, exit_code >>
       \/ /\ RaiseUncaught("OSError", "read failed")
          /\ UNCHANGED << src_pos, chunk >>
    /\ UNCHANGED << envVars, fs, source, returncode, iso_hasher, raw_hasher, bytes_written,
                    progress_updates, restVars >>

\* chunk = proc.stdout.read(4 MiB): up to one block, empty at end of stream
\* (break), or the read fails
ReadBlock ==
    /\ pc = "read"
    /\ \/ /\ src_pos < Len(source)
          /\ \E k \in 1..Min(BlockSize, Len(source) - src_pos) :
                /\ chunk' = SubSeq(source, src_pos + 1, src_pos + k)
                /\ src_pos' = src_pos + k
          /\ pc' = "write"
          /\ UNCHANGED << result, error, exit_code >>
       \/ /\ src_pos = Len(source)
          /\ chunk' = << >>
          /\ pc' = "dd_wait"
          /\ UNCHANGED << src_pos, result, error, exit_code >>
       \/ /\ RaiseUncaught("OSError", "read failed")
          /\ UNCHANGED << src_pos, chunk >>
    /\ UNCHANGED << envVars, fs, source, returncode, iso_hasher, raw_hasher, bytes_written,
                    progress_updates, restVars >>

\* WriteBlock removing the partial image when the write fails
WriteBlock_Cleanup ==
    /\ pc = "write"
    /\ \/ /\ fs' = [fs EXCEPT !["iso"].data = @ \o chunk]
          /\ pc' = "hash_iso"
          /\ UNCHANGED << result, error, exit_code >>
       \/ /\ fs' = [fs EXCEPT !["iso"] = Absent]
          /\ RaiseUncaught("OSError", "write failed")
    /\ UNCHANGED << envVars, copyVars, restVars >>

\* iso_file.write(chunk): the block is appended, or the write fails after
\* part of the block has reached the file
WriteBlock ==
    /\ pc = "write"
    /\ \/ /\ fs' = [fs EXCEPT !["iso"].data = @ \o chunk]
          /\ pc' = "hash_iso"
          /\ UNCHANGED << result, error, exit_code >>
       \/ /\ \E k \in 0..(Len(chunk) - 1) :
                fs' = [fs EXCEPT !["iso"].data = @ \o SubSeq(chunk, 1, k)]
          /\ RaiseUncaught("OSError", "write failed")
    /\ UNCHANGED << envVars, copyVars, restVars >>

\* iso_hasher.update(chunk)
HashIso ==
    /\ pc = "hash_iso"
    /\ iso_hasher' = MD5Update(iso_hasher, chunk)
    /\ pc' = "hash_raw"
    /\ UNCHANGED << envVars, fs, source, returncode, src_pos, chunk, raw_hasher, bytes_written,
                    progress_updates, restVars, result, error, exit_code >>

\* HashRaw with the update of the second accumulator left out
HashRaw_NoUpdate ==
    /\ pc = "hash_raw"
    /\ pc' = "count"
    /\ UNCHANGED << envVars, fs, copyVars, restVars, result, error, exit_code >>

\* raw_hasher.update(chunk)
HashRaw ==
    /\ pc = "hash_raw"
    /\ raw_hasher' = MD5Update(raw_hasher, chunk)
    /\ pc' = "count"
    /\ UNCHANGED << envVars, fs, source, returncode, src_pos, chunk, iso_hasher, bytes_written,
                    progress_updates, restVars, result, error, exit_code >>

\* CountBytes counting a whole block for every read
CountBytes_WholeBlock ==
    /\ pc = "count"
    /\ bytes_written' = bytes_written + BlockSize
    /\ pc' = "progress"
    /\ UNCHANGED << envVars, fs, source, returncode, src_pos, chunk, iso_hasher, raw_hasher,
                    progress_updates, restVars, result, error, exit_code >>

\* bytes_written += len(chunk)
CountBytes ==
    /\ pc = "count"
    /\ bytes_written' = bytes_written + Len(chunk)
    /\ pc' = "progress"
    /\ UNCHANGED << envVars, fs, source, returncode, src_pos, chunk, iso_hasher, raw_hasher,
                    progress_updates, restVars, result, error, exit_code >>

\* self._display_progress("ISO Creation", bytes_written, disk_size, start_time)
Progress ==
    /\ pc = "progress"
    /\ progress_updates' = progress_updates + 1
    /\ pc' = "read"
    /\ UNCHANGED << envVars, fs, source, returncode, src_pos, chunk, iso_hasher, raw_hasher,
                    bytes_written, restVars, result, error, exit_code >>

\* DdWait with the return code of dd read and not checked
DdWait_Unchecked ==
    /\ pc = "dd_wait"
    /\ returncode' \in {0, 1}
    /\ pc' = "copy_done"
    /\ UNCHANGED << envVars, fs, source, src_pos, chunk, iso_hasher, raw_hasher,
                    bytes_written, progress_updates, restVars, result, error,
                    exit_code >>

\* DdWait with the disk remounted and ejected before the failure is raised
DdWait_Finalized ==
    /\ pc = "dd_wait"
    /\ returncode' \in {0, 1}
    /\ IF returncode' # 0
       THEN /\ RaiseUncaught("RuntimeError", "dd failed")
            /\ finalized' = TRUE
       ELSE /\ pc' = "copy_done"
            /\ UNCHANGED << finalized, result, error, exit_code >>
    /\ UNCHANGED << envVars, fs, source, src_pos, chunk, iso_hasher, raw_hasher,
                    bytes_written, progress_updates, disk_info, disk_size, unmounted,
                    creation_time, md5_iso, md5_raw, validator, iso_analysis,
                    manifest_writes >>

\* proc.communicate() and the check of dd's return code
DdWait ==
    /\ pc = "dd_wait"
    /\ returncode' \in {0, 1}
    /\ IF returncode' # 0
       THEN RaiseUncaught("RuntimeError", "dd failed")
       ELSE /\ pc' = "copy_done"
            /\ UNCHANGED << result, error, exit_code >>
    /\ UNCHANGED << envVars, fs, source, src_pos, chunk, iso_hasher, raw_hasher,
                    bytes_written, progress_updates, restVars >>

\* the positions inside the try block of the copy
CopyPcs == {"read", "write", "hash_iso", "hash_raw", "count", "progress", "dd_wait"}

\* Interrupt without the sys.exit(1): the handler logs and the function goes on
Interrupt_Continue ==
    /\ pc \in CopyPcs
    /\ error' = [type |-> "KeyboardInterrupt", message |-> "Operation interrupted by user."]
    /\ pc' = "copy_done"
    /\ UNCHANGED << envVars, fs, copyVars, restVars, result, exit_code >>

\* except KeyboardInterrupt: log and sys.exit(1). The signal is raised at
\* whichever statement of the try block is running; a write it breaks off may
\* have put part of the block in the file
Interrupt ==
    /\ pc \in CopyPcs
    /\ IF pc = "write"
       THEN \E k \in 0..(Len(chunk) - 1) :
               fs' = [fs EXCEPT !["iso"].data = @ \o SubSeq(chunk, 1, k)]
       ELSE UNCHANGED fs
    /\ SysExit(1, "Operation interrupted by user.")
    /\ UNCHANGED << envVars, copyVars, restVars >>

\* the elapsed time and the two hex digests are returned to create_backup
CopyDone ==
    /\ pc = "copy_done"
    /\ creation_time' \in Clock
    /\ md5_iso' = HexDigest(iso_hasher)
    /\ md5_raw' = HexDigest(raw_hasher)
    /\ pc' = "analyze"
    /\ UNCHANGED << envVars, fs, copyVars, disk_info, disk_size, unmounted, finalized,
                    validator, iso_analysis, result, error, exit_code, manifest_writes >>

\* ------------------------------------------------- after the copy
\* _analyze_iso_structure: the dictionary returned for each way the run of
\* isolyzer can end
_analyze_iso_structure(outcome, xml) ==
    CASE outcome = "ran"              -> _parse_isolyzer_xml(xml)
      [] outcome = "execution_failed" ->
             [error |-> "isolyzer failed", error_type |-> "execution_failed"]
      [] outcome = "not_found"        ->
             [error |-> "isolyzer not installed", error_type |-> "not_found"]
      [] OTHER                        ->
             [error |-> "unexpected error", error_type |-> "parsing_failed"]

\* the report file _analyze_iso_structure leaves: the raw XML after a run, a
\* minimal document after a failed one, nothing new otherwise
IsolyzerFile(outcome, xml, old) ==
    CASE outcome = "ran"              -> File(<< xml >>)
      [] outcome = "execution_failed" -> File(<< "minimal" >>)
      [] OTHER                        -> old

\* Analyze with no handler for a missing executable: FileNotFoundError leaves main
Analyze_Unhandled ==
    /\ pc = "analyze"
    /\ \E outcome \in ValidatorOutcomes, xml \in RunXmlDocs :
          /\ outcome # "ran" => xml = MalformedXml
          /\ validator' = outcome
          /\ iso_analysis' = _analyze_iso_structure(outcome, xml)
          /\ fs' = [fs EXCEPT !["isolyzer"] = IsolyzerFile(outcome, xml, @)]
          /\ IF outcome = "not_found"
             THEN RaiseUncaught("FileNotFoundError", "isolyzer")
             ELSE /\ pc' = "finalize"
                  /\ UNCHANGED << result, error, exit_code >>
    /\ UNCHANGED << envVars, copyVars, disk_info, disk_size, unmounted, finalized,
                    creation_time, md5_iso, md5_raw, manifest_writes >>

\* Analyze with the reports assembled without waiting for the validator
Analyze_Deferred ==
    /\ pc = "analyze"
    /\ pc' = "finalize"
    /\ UNCHANGED << envVars, fs, copyVars, restVars, result, error, exit_code >>

\* create_backup: iso_analysis = self._analyze_iso_structure(output_path)
Analyze ==
    /\ pc = "analyze"
    /\ \E outcome \in ValidatorOutcomes, xml \in RunXmlDocs :
          /\ outcome # "ran" => xml = MalformedXml
          /\ validator' = outcome
          /\ iso_analysis' = _analyze_iso_structure(outcome, xml)
          /\ fs' = [fs EXCEPT !["isolyzer"] = IsolyzerFile(outcome, xml, @)]
    /\ pc' = "finalize"
    /\ UNCHANGED << envVars, copyVars, disk_info, disk_size, unmounted, finalized,
                    creation_time, md5_iso, md5_raw, result, error, exit_code,
                    manifest_writes >>

\* _finalize_disk: remount (and, outside a dry run, eject)
_finalize_disk ==
    /\ pc = "finalize"
    /\ finalized' = TRUE
    /\ pc' = "result"
    /\ UNCHANGED << envVars, fs, copyVars, disk_info, disk_size, unmounted,
                    creation_time, md5_iso, md5_raw, validator, iso_analysis, result,
                    error, exit_code, manifest_writes >>

\* MakeResult with the number of bytes copied given as the size
MakeResult_BytesWritten ==
    /\ pc = "result"
    /\ result' = [ BackupResult(TRUE, bytes_written, md5_iso, md5_raw, creation_time, "")
                     EXCEPT !.returned = FALSE ]
    /\ pc' = "log"
    /\ UNCHANGED << envVars, fs, copyVars, restVars, error, exit_code >>

\* create_backup: result = BackupResult(success=True, ...) and the summary
MakeResult ==
    /\ pc = "result"
    /\ result' = [ BackupResult(TRUE, disk_size, md5_iso, md5_raw, creation_time, "")
                     EXCEPT !.returned = FALSE ]
    /\ pc' = "log"
    /\ UNCHANGED << envVars, fs, copyVars, restVars, error, exit_code >>

\* create_formatted_log(log_path, config, result, start_time, disk_info)
WriteLog ==
    /\ pc = "log"
    /\ fs' = [fs EXCEPT !["log"] = File(<< create_formatted_log(config, result, fs) >>)]
    /\ pc' = "manifest"
    /\ UNCHANGED << envVars, copyVars, restVars, result, error, exit_code >>

\* WriteManifest returning the result without writing the file
WriteManifest_Skipped ==
    /\ pc = "manifest"
    /\ Return([result EXCEPT !.returned = TRUE])
    /\ UNCHANGED << envVars, fs, copyVars, restVars >>

\* self._create_manifest(result, disk_info, iso_analysis); return result
WriteManifest ==
    /\ pc = "manifest"
    /\ \E now \in Clock, uuid \in 0..MaxUuid :
          fs' = [fs EXCEPT !["manifest"] =
                    File(json_dump(_create_manifest(result, disk_info, iso_analysis,
                                                    config, now, uuid, fs), FALSE))]
    /\ manifest_writes' = manifest_writes + 1
    /\ Return([result EXCEPT !.returned = TRUE])
    /\ UNCHANGED << envVars, copyVars, disk_info, disk_size, unmounted, finalized,
                    creation_time, md5_iso, md5_raw, validator, iso_analysis >>

\* ExitStatus with the warning and the failure status exchanged
ExitStatus_Swapped(r) ==
    IF r.success
    THEN (IF checksum_match(r) = "False" THEN 1 ELSE 0)
    ELSE 2

\* main: the exit status chosen from the result
ExitStatus(r) ==
    IF r.success
    THEN (IF checksum_match(r) = "False" THEN 2 ELSE 0)
    ELSE 1

\* main: sys.exit(...)
MainExit ==
    /\ pc = "main_exit"
    /\ exit_code' = ExitStatus(result)
    /\ pc' = "exited"
    /\ UNCHANGED << envVars, fs, copyVars, restVars, result, error >>

Next ==
    \/ CheckRoot
    \/ GetDiskInfo
    \/ CheckExisting
    \/ PrepareOutput
    \/ _unmount_disk
    \/ DryRun
    \/ OpenIso
    \/ ReadBlock
    \/ WriteBlock
    \/ HashIso
    \/ HashRaw
    \/ CountBytes
    \/ Progress
    \/ DdWait
    \/ Interrupt
    \/ CopyDone
    \/ Analyze
    \/ _finalize_disk
    \/ MakeResult
    \/ WriteLog
    \/ WriteManifest
    \/ MainExit

Spec == Init /\ [][Next]_vars

\* ------------------------------------------- methods called on their own
\* A second specification: one method is called with arguments drawn from
\* the values a run can hand it, and ret keeps what it returned.
mainVars == << pc, config, fs, fs_before, source, src_pos, chunk, iso_hasher,
               raw_hasher, bytes_written, progress_updates, returncode, disk_info,
               disk_size,
               unmounted, finalized, creation_time, md5_iso, md5_raw, validator,
               iso_analysis, result, error, exit_code, manifest_writes >>

\* every key the manifest reads from the plist, the fallback keys included
OptionalDiskInfo(size) ==
    FullDiskInfo(size) @@ [ FilesystemType |-> "cd9660",
                            IORegistryEntryName |-> "DVD-RW",
                            DeviceBlockSize |-> 2048 ]

RECURSIVE SubsetsUpTo(_, _)
SubsetsUpTo(K, n) ==
    IF n = 0 THEN {{}}
    ELSE LET P == SubsetsUpTo(K, n - 1) IN P \cup {A \cup {k} : A \in P, k \in K}

Restrict(d, S) == [k \in S |-> d[k]]

\* the dictionaries create_backup goes on with (not one of them empty): all
\* keys but a few, and a few keys only
SparseDiskInfos ==
    LET D == OptionalDiskInfo(MaxLen)
        K == DOMAIN D
        few == SubsetsUpTo(K, MaxAbsent)
    IN  {Restrict(D, K \ A) : A \in few} \cup {Restrict(D, A) : A \in few \ {{}}}

\* what _analyze_iso_structure can return
RunAnalyses ==
    {_analyze_iso_structure(o, MalformedXml) : o \in ValidatorOutcomes \ {"ran"}}
        \cup {_analyze_iso_structure("ran", x) : x \in XmlDocs}

\* the output files when _create_manifest is called
FilesAtManifest(cfg, src) ==
    [FsBefore(FALSE) EXCEPT !["dir"]  = File(<< >>),
                            !["tree"] = File(<< "listing", "totals" >>),
                            !["iso"]  = IF cfg.dry_run THEN Absent ELSE File(src)]

\* the arguments create_backup passes to _create_manifest
ManifestCall(cfg, di, ia, t, src) ==
    LET h == IF cfg.dry_run THEN DryRunHash ELSE HexDigest(MD5Update(MD5New, src))
    IN  [ fn |-> "_create_manifest",
          config |-> cfg,
          disk_info |-> di,
          iso_analysis |-> IF cfg.dry_run THEN [skipped |-> TRUE, reason |-> "dry run"]
                           ELSE ia,
          result |-> BackupResult(TRUE, Get(di, "TotalSize", 0), h, h,
                                  IF cfg.dry_run THEN 0 ELSE t, ""),
          files |-> FilesAtManifest(cfg, src) ]

\* the calls of _create_manifest: every sparse disk dictionary with an error
\* record and a parsed report, and a minimal and a full dictionary with every
\* analysis, elapsed time and image, empty image included
ManifestCalls ==
    { ManifestCall(cfg, di, ia, MaxTime, << 1 >>) :
          cfg \in [dry_run : BOOLEAN, no_verification : BOOLEAN],
          di \in SparseDiskInfos,
          ia \in { _analyze_iso_structure("not_found", MalformedXml),
                   _analyze_iso_structure("ran", FullXml(TRUE)) } }
    \cup
    { ManifestCall(cfg, di, ia, t, src) :
          cfg \in [dry_run : BOOLEAN, no_verification : BOOLEAN],
          di \in DiskInfos \ {<< >>}, ia \in RunAnalyses, t \in Clock,
          src \in {<< >>, << 1 >>} }

\* the calls of _display_progress: any byte count, any declared total (0 and
\* totals below the count included), any elapsed time
ProgressCalls ==
    { [fn |-> "_display_progress", current |-> c, total |-> t, elapsed |-> e] :
          c \in 0..MaxLen, t \in 0..MaxLen, e \in 0..MaxTicks }

\* the calls of _format_duration, on whole seconds
DurationCalls == { [fn |-> "_format_duration", seconds |-> n] : n \in 0..MaxSeconds }

Calls == ManifestCalls \cup ProgressCalls \cup DurationCalls

FnInit ==
    /\ pc = "fn"
    /\ config = [dry_run |-> FALSE, no_verification |-> FALSE]
    /\ fs = FsBefore(FALSE)
    /\ fs_before = fs
    /\ source = << >>
    /\ Fresh
    /\ call \in Calls
    /\ ret = NoRet

\* self._create_manifest(result, disk_info, iso_analysis)
Call_create_manifest ==
    /\ pc = "fn" /\ call.fn = "_create_manifest" /\ ~ret.done
    /\ \E now \in Clock, uuid \in 0..MaxUuid :
          LET manifest == _create_manifest(call.result, call.disk_info,
                                           call.iso_analysis, call.config,
                                           now, uuid, call.files)
          IN  ret' = [ done |-> TRUE,
                       value |-> manifest,
                       file |-> File(json_dump(manifest, FALSE)) ]
    /\ UNCHANGED << mainVars, call >>

\* self._display_progress("ISO Creation", bytes_written, disk_size, start_time)
Call_display_progress ==
    /\ pc = "fn" /\ call.fn = "_display_progress" /\ ~ret.done
    /\ ret' = [ done |-> TRUE,
                value |-> _display_progress(call.current, call.total, call.elapsed) ]
    /\ UNCHANGED << mainVars, call >>

\* self._format_duration(result.creation_time)
Call_format_duration ==
    /\ pc = "fn" /\ call.fn = "_format_duration" /\ ~ret.done
    /\ ret' = [done |-> TRUE, value |-> _format_duration(call.seconds)]
    /\ UNCHANGED << mainVars, call >>

FnNext ==
    \/ Call_create_manifest
    \/ Call_format_duration
    \/ Call_display_progress

FnSpec == FnInit /\ [][FnNext]_vars

\* ----------------------------------------------------------- properties
IsPrefix(a, b) == Len(a) <= Len(b) /\ SubSeq(b, 1, Len(a)) = a

\* the manifest on disk
Manifest == fs["manifest"].data[1]

\* _create_and_verify_iso has returned its three values
CopyCompleted == ~config.dry_run /\ md5_iso # None

\* C1: after a copy that completes, whatever the source and however it was
\* split into blocks, the ISO digest and the raw-disk digest returned are
\* equal: both accumulators absorbed the same blocks, so both are the digest
\* of the whole source.
C1_DigestsEqual ==
    CopyCompleted =>
        /\ md5_iso = md5_raw
        /\ iso_hasher = raw_hasher
        /\ md5_iso = HexDigest(MD5Update(MD5New, source))

\* a completed copy of a longest source that took several blocks
C1_Witness ==
    /\ CopyCompleted
    /\ Len(source) = MaxLen
    /\ progress_updates >= 2

\* C2: after every iteration of the copy loop bytes_written is the number of
\* bytes written to the destination and the number of bytes read from the
\* source so far; when the loop has ended on end-of-stream it is the length
\* of the source stream.
C2_BytesWritten ==
    /\ pc = "read" =>
          /\ bytes_written = Len(fs["iso"].data)
          /\ bytes_written = src_pos
          /\ fs["iso"].data = SubSeq(source, 1, src_pos)
    /\ pc \in {"dd_wait", "copy_done"} =>
          /\ bytes_written = Len(source)
          /\ bytes_written = Len(fs["iso"].data)

\* the loop has ended on end-of-stream after several blocks
C2_Witness ==
    /\ pc = "dd_wait"
    /\ bytes_written = MaxLen
    /\ progress_updates >= 2

\* the run ended in a fatal failure: create_backup returned a failure, an
\* exception left main, or the run was cancelled
FatalFailure ==
    \/ result.returned /\ ~result.success
    \/ error # NoError

\* C3: the exit status is 0 exactly when the run succeeded without an
\* integrity mismatch, 2 exactly when it succeeded with differing digests,
\* and 1 after every fatal failure (privilege, disk info, overwrite declined,
\* copy error).
C3_ExitStatus ==
    pc = "exited" =>
        /\ exit_code \in {0, 1, 2}
        /\ exit_code = 0 <=> ( /\ result.returned /\ result.success
                               /\ result.md5_iso = result.md5_raw )
        /\ exit_code = 2 <=> ( /\ result.returned /\ result.success
                               /\ result.md5_iso # result.md5_raw )
        /\ FatalFailure => exit_code = 1
        /\ ( \/ result.error_message \in { "Not running as root",
                                            "Could not get disk info",
                                            "Aborted to avoid overwrite" }
             \/ error.type \in {"OSError", "RuntimeError"} ) => exit_code = 1

\* a run that copied a non-empty source and exited with status 0
C3_Witness ==
    /\ pc = "exited"
    /\ exit_code = 0
    /\ CopyCompleted
    /\ Len(source) > 0

\* a read or a write of the copy failed, or dd did
CopyFailed == error.type \in {"OSError", "RuntimeError"}

\* C4 as stated: when a read or a write fails during the copy, the copy
\* aborts with a fatal error that carries the number of bytes written so far
\* and a textual cause, and the partial destination file is left in place.
C4_Original ==
    CopyFailed =>
        /\ pc = "exited"
        /\ exit_code = 1
        /\ "bytes_written" \in DOMAIN error
        /\ error.bytes_written = bytes_written
        /\ error.message # ""
        /\ fs["iso"].exists

\* C4 amended: when a read or a write fails during the copy, the copy aborts
\* with a fatal error (an exception nothing catches: no result is returned
\* and the process exits with status 1) that carries a textual cause and
\* nothing else, and the partial destination file is left in place, holding
\* the bytes that reached it.
C4_CopyFailure ==
    CopyFailed =>
        /\ pc = "exited"
        /\ ~ENABLED Next
        /\ exit_code = 1
        /\ ~result.returned
        /\ DOMAIN error = {"type", "message"}
        /\ error.message # ""
        /\ fs["iso"].exists
        /\ IsPrefix(fs["iso"].data, source)
        /\ Len(fs["iso"].data) >= bytes_written

\* a write failed after part of the block had reached the file
C4_Witness ==
    /\ error.message = "write failed"
    /\ Len(fs["iso"].data) > bytes_written

\* the copy was cancelled
Interrupted == error.message = "Operation interrupted by user."

\* C5: when a cancellation signal arrives during the copy loop, no further
\* block is read or written (the process has ended), the exit status is the
\* fatal, non-zero one, and the partial destination file is neither deleted
\* nor finalized: no digest, result, log or manifest is produced and the disk
\* is not finalized.
C5_Cancellation ==
    Interrupted =>
        /\ pc = "exited"
        /\ ~ENABLED Next
        /\ exit_code = 1
        /\ fs["iso"].exists
        /\ IsPrefix(fs["iso"].data, source)
        /\ md5_iso = None /\ md5_raw = None
        /\ ~finalized
        /\ ~result.returned
        /\ manifest_writes = 0
        /\ fs["manifest"] = fs_before["manifest"]
        /\ fs["log"] = fs_before["log"]

\* cancelled with part of the source, and not all of it, in the file
C5_Witness ==
    /\ Interrupted
    /\ Len(fs["iso"].data) > 0
    /\ Len(fs["iso"].data) < Len(source)

\* C6: if the copy succeeded then, whichever way the structural validator
\* ended (missing, failed to execute, other error, or ran, with output that
\* parses or not), no error is raised, the run goes on to its end, and there
\* the result has success = true and the exit status is 0.
C6_ValidatorNonFatal ==
    validator # "not_run" =>
        /\ CopyCompleted
        /\ error = NoError
        /\ pc \in {"finalize", "result", "log", "manifest", "main_exit", "exited"}
        /\ pc # "exited" => ENABLED Next
        /\ pc = "exited" => /\ result.returned
                            /\ result.success
                            /\ exit_code = 0

\* a finished run whose validator failed to execute
C6_Witness ==
    /\ pc = "exited"
    /\ validator = "execution_failed"
    /\ exit_code = 0

\* C7 as stated: when the validator executable is absent and the copy
\* succeeded, the manifest's structural-analysis section has
\* analysis_performed = false and error_type = "not_found", and the run exits
\* with status 0.
C7_Original ==
    (pc = "exited" /\ validator = "not_found") =>
        /\ manifest_writes = 1
        /\ Manifest.structural_analysis.analysis_performed = FALSE
        /\ "error_type" \in DOMAIN Manifest.structural_analysis
        /\ Manifest.structural_analysis.error_type = "not_found"
        /\ exit_code = 0

\* C8 as stated: every run that terminates, whatever its outcome, has written
\* the manifest file exactly once.
C8_Original == pc = "exited" => manifest_writes = 1

\* C8 amended: no run writes the manifest more than once; a run that
\* terminates has written it exactly once if create_backup returned a
\* success result, and not at all if the run ended in a fatal failure, a
\* declined overwrite or a cancellation.
C8_ManifestOnSuccess ==
    /\ manifest_writes \in {0, 1}
    /\ manifest_writes = 0 => fs["manifest"] = fs_before["manifest"]
    /\ pc = "exited" =>
          (manifest_writes = 1 <=> (result.returned /\ result.success))
    /\ (pc = "exited" /\ FatalFailure) => manifest_writes = 0

\* a run that ended with the manifest written
C8_Witness ==
    /\ pc = "exited"
    /\ manifest_writes = 1
    /\ fs["manifest"].exists

\* the manifest a second assembly from the same inputs gives, with the clock
\* at now and uuid4() giving uuid
Reassembled(now, uuid) ==
    _create_manifest(result, disk_info, iso_analysis, config, now, uuid, fs)

\* m1 and m2 agree everywhere but on the backup_metadata keys in except
SameExcept(m1, m2, except) ==
    /\ DOMAIN m1 = DOMAIN m2
    /\ \A sec \in DOMAIN m1 \ {"backup_metadata"} : m1[sec] = m2[sec]
    /\ DOMAIN m1.backup_metadata = DOMAIN m2.backup_metadata
    /\ \A k \in DOMAIN m1.backup_metadata \ except :
          m1.backup_metadata[k] = m2.backup_metadata[k]

\* C9 as stated: assembling the manifest twice from the same inputs gives two
\* manifests identical in every field except the generation timestamp.
C9_Original ==
    manifest_writes = 1 =>
        \A now \in Clock, uuid \in 0..MaxUuid :
            SameExcept(Manifest, Reassembled(now, uuid), {"created"})

\* C9 amended: assembling the manifest twice from the same copy result,
\* analysis result, disk metadata and configuration gives two manifests
\* identical in every field except backup_metadata.created,
\* backup_metadata.run_id (which embeds the timestamp) and
\* backup_metadata.uuid (a fresh uuid4 in every assembly).
C9_IdempotentManifest ==
    manifest_writes = 1 =>
        \A now \in Clock, uuid \in 0..MaxUuid :
            SameExcept(Manifest, Reassembled(now, uuid), {"created", "run_id", "uuid"})

\* a manifest written after the validator ran on a copy of a non-empty source
C9_Witness ==
    /\ manifest_writes = 1
    /\ validator = "ran"
    /\ Len(source) > 0

\* the operator declined to overwrite the existing image
OverwriteDeclined == result.error_message = "Aborted to avoid overwrite"

\* C10: if the destination image already exists and the operator declines to
\* overwrite it, the run aborts with the overwrite-declined error, the exit
\* status is 1, and the run has created, modified or deleted no file.
C10_OverwriteDeclined ==
    OverwriteDeclined =>
        /\ fs_before["iso"].exists
        /\ result.returned /\ ~result.success
        /\ pc \in {"main_exit", "exited"}
        /\ pc = "exited" => exit_code = 1
        /\ fs = fs_before
        /\ manifest_writes = 0

\* the run has exited after the operator declined
C10_Witness ==
    /\ OverwriteDeclined
    /\ pc = "exited"
    /\ exit_code = 1

\* _create_manifest has returned
ManifestReturned == call.fn = "_create_manifest" /\ ret.done

\* C11 as stated: for every disk metadata dictionary with optional keys
\* absent, assembling the manifest does not raise and each absent optional
\* field appears in the manifest as the placeholder "Unknown".  (Stated on
\* the fields whose values are strings when present.)
C11_Original ==
    ManifestReturned =>
        LET di == call.disk_info
            sd == ret.value.source_disc
            vi == ret.value.volume_information
            tp == ret.value.technical_details.source_device_properties
        IN  /\ "OpticalMediaType" \notin DOMAIN di => sd.media_type = "Unknown"
            /\ "OpticalDeviceType" \notin DOMAIN di => sd.drive_capabilities = "Unknown"
            /\ "BusProtocol" \notin DOMAIN di => sd.connection_type = "Unknown"
            /\ "MountPoint" \notin DOMAIN di => vi.mount_point = "Unknown"
            /\ "DeviceIdentifier" \notin DOMAIN di => tp.device_identifier = "Unknown"
            /\ "DeviceNode" \notin DOMAIN di => tp.device_node = "Unknown"
            /\ "SMARTStatus" \notin DOMAIN di => tp.smart_status = "Unknown"

\* C11 amended: for every disk metadata dictionary with optional keys absent,
\* assembling the manifest does not raise; an absent media type, filesystem,
\* drive model, drive capability, connection type or allocation block size
\* (with its fallback key absent too) appears as "Unknown", an absent
\* erasable or writable flag as false, an absent volume size as the total
\* size, an absent total size as 0, an absent mount point as
\* /Volumes/<volume name>, and an absent device property of the technical
\* details as null.
C11_AbsentFields ==
    ManifestReturned =>
        LET di == call.disk_info
            sd == ret.value.source_disc
            vi == ret.value.volume_information
            tp == ret.value.technical_details.source_device_properties
            Has(k) == k \in DOMAIN di
        IN  /\ ~Has("OpticalMediaType") => sd.media_type = "Unknown"
            /\ ~Has("FilesystemName") /\ ~Has("FilesystemType") => sd.filesystem = "Unknown"
            /\ ~Has("FilesystemName") /\ Has("FilesystemType") =>
                   sd.filesystem = di["FilesystemType"]
            /\ ~Has("MediaName") /\ ~Has("IORegistryEntryName") => sd.drive_model = "Unknown"
            /\ ~Has("MediaName") /\ Has("IORegistryEntryName") =>
                   sd.drive_model = di["IORegistryEntryName"]
            /\ ~Has("OpticalDeviceType") => sd.drive_capabilities = "Unknown"
            /\ ~Has("BusProtocol") => sd.connection_type = "Unknown"
            /\ ~Has("VolumeAllocationBlockSize") /\ ~Has("DeviceBlockSize") =>
                   vi.allocation_block_size = "Unknown"
            /\ ~Has("OpticalMediaErasable") => sd.erasable = FALSE
            /\ ~Has("Writable") => sd.read_only = FALSE /\ tp.writable = Null
            /\ ~Has("TotalSize") => vi.total_size_bytes = 0
            /\ ~Has("VolumeSize") => vi.used_space_bytes = vi.total_size_bytes
            /\ ~Has("MountPoint") => vi.mount_point = "/Volumes/VOL"
            /\ ~Has("DeviceIdentifier") => tp.device_identifier = Null
            /\ ~Has("DeviceNode") => tp.device_node = Null
            /\ ~Has("Ejectable") => tp.ejectable = Null
            /\ ~Has("Removable") => tp.removable = Null
            /\ ~Has("Internal") => tp.internal = Null
            /\ ~Has("SMARTStatus") => tp.smart_status = Null
            /\ ~Has("Bootable") => tp.bootable = Null

\* a manifest assembled from a dictionary with a single key
C11_Witness ==
    /\ ManifestReturned
    /\ Cardinality(DOMAIN call.disk_info) = 1
    /\ ret.value.source_disc.media_type = "Unknown"
    /\ ret.value.technical_details.source_device_properties.device_node = Null

\* the validator was missing, failed to execute or hit another error, or it
\* ran and its output did not parse
ValidatorFailed ==
    \/ validator \in {"not_found", "execution_failed", "other_error"}
    \/ /\ validator = "ran"
       /\ fs["isolyzer"].data[1] \in {MalformedXml, NoImageXml, BadSizeXml}

\* C12: whenever the structural validator is missing, fails to execute, or
\* its output fails to parse, the analysis is an error record and the
\* manifest carries its error, reports analysis_performed = false, and gives
\* the structural-integrity verification level a status of "failed" or
\* "not_performed", never "verified".
C12_ValidatorError ==
    ValidatorFailed =>
        /\ "error" \in DOMAIN iso_analysis
        /\ manifest_writes = 1 =>
              /\ Manifest.structural_analysis.error = iso_analysis["error"]
              /\ Manifest.structural_analysis.error # Null
              /\ Manifest.structural_analysis.analysis_performed = FALSE
              /\ Manifest.structural_analysis.analysis_successful = FALSE
              /\ Manifest.quality_assurance.verification_levels[2].type
                     = "structural_integrity"
              /\ Manifest.quality_assurance.verification_levels[2].status
                     \in {"failed", "not_performed"}
              /\ Manifest.quality_assurance.verification_levels[2].status # "verified"

\* a manifest written after the validator's output did not parse
C12_Witness ==
    /\ manifest_writes = 1
    /\ validator = "ran"
    /\ fs["isolyzer"].data[1] = MalformedXml
    /\ Manifest.quality_assurance.verification_levels[2].status = "failed"

\* the validator ran and parsing its output failed
ParseFailed == validator = "ran" /\ "error" \in DOMAIN iso_analysis

\* the classifications the code has for a failure to parse
ParseClassifications == {"xml_parse_error", "unknown_error", "parsing_failed"}

\* C13 as stated: a failure while parsing the validator's output always
\* yields an error classification, one that differs from those of a
\* tool-execution failure and of a tool-not-found condition, and only a
\* parse failure receives a parse classification.
C13_Original ==
    validator # "not_run" =>
        /\ ParseFailed =>
              /\ "error_type" \in DOMAIN iso_analysis
              /\ iso_analysis["error_type"] \notin {"execution_failed", "not_found"}
        /\ ( /\ "error_type" \in DOMAIN iso_analysis
             /\ iso_analysis["error_type"] \in ParseClassifications ) => ParseFailed

\* the report the validator printed, as saved by _analyze_iso_structure
Report == fs["isolyzer"].data[1]

\* the validator printed a well-formed report with an image element and no
\* malformed number in it
ReportParsable ==
    /\ validator = "ran"
    /\ Report.wellformed
    /\ "image" \in DOMAIN Report.root
    /\ Report # BadSizeXml

\* C14 as stated: when the report omits an optional element or field (tool
\* info, file info, status info, the tests element or a single test, the file
\* systems or a descriptor field), parsing still succeeds and the
\* corresponding value in the result is zero, false or empty.
C14_Original ==
    ReportParsable =>
        LET root == Report.root
            image == root["image"]
            ia == iso_analysis
        IN  /\ "error" \notin DOMAIN ia
            /\ "toolInfo" \notin DOMAIN root => ia.tool_info = << >>
            /\ "fileInfo" \notin DOMAIN image => ia.file_info = << >>
            /\ "statusInfo" \notin DOMAIN image => ia.status_success = FALSE
            /\ "fileSystems" \notin DOMAIN image =>
                   /\ ia.filesystems = << >>
                   /\ ia.valid_iso9660 = FALSE
                   /\ ia.has_udf = FALSE
            /\ "tests" \notin DOMAIN image =>
                   /\ ia.tests = << >>
                   /\ ia.size_expected = 0
                   /\ ia.size_actual = 0
                   /\ ia.size_difference_bytes = 0
                   /\ ia.size_difference_sectors = 0
                   /\ ia.size_as_expected = FALSE
                   /\ ia.smaller_than_expected = FALSE
                   /\ ia.contains_known_filesystem = FALSE

\* C15 as stated: whenever a parsed structural-analysis result reports that
\* the size-as-expected test is false, its warnings list contains a warning
\* that cites the size difference in bytes.
C15_Original ==
    (validator = "ran" /\ "error" \notin DOMAIN iso_analysis) =>
        ( iso_analysis.size_as_expected = FALSE =>
            \E i \in 1..Len(iso_analysis.warnings) :
                /\ iso_analysis.warnings[i][1] = "File size differs from expected by"
                /\ iso_analysis.warnings[i][2] = iso_analysis.size_difference_bytes
                /\ iso_analysis.warnings[i][3] = "bytes" )

\* _display_progress has returned
ProgressReturned == call.fn = "_display_progress" /\ ret.done

C17_ZeroByteSource ==
    (~config.dry_run /\ source = << >>) =>
        /\ pc \notin {"write", "hash_iso", "hash_raw", "count", "progress"}
        /\ bytes_written = 0
        /\ progress_updates = 0
        /\ fs["iso"] \in {fs_before["iso"], File(<< >>)}
        /\ pc = "read" =>
              /\ ENABLED (ReadBlock /\ pc' = "dd_wait")
              /\ ~ENABLED (ReadBlock /\ pc' = "write")
        /\ pc = "dd_wait" => fs["iso"] = File(<< >>) /\ chunk = << >>
        /\ CopyCompleted =>
              /\ md5_iso = HexDigest(MD5Update(MD5New, << >>))
              /\ md5_raw = md5_iso
              /\ fs["iso"] = File(<< >>)
              /\ pc = "exited" =>
                    /\ result.returned /\ result.success
                    /\ result.md5_iso = md5_iso /\ result.md5_raw = md5_iso
                    /\ exit_code = 0

\* a finished run that copied a source of zero bytes
C17_Witness ==
    /\ pc = "exited"
    /\ ~config.dry_run
    /\ source = << >>
    /\ CopyCompleted
    /\ result.success
    /\ bytes_written = 0

\* _format_duration has returned
DurationReturned == call.fn = "_format_duration" /\ ret.done

\* C18: for every whole number of seconds s >= 0 the formatted duration
\* reports s div 60 minutes (left out when 0) and s mod 60 seconds, in no
\* unit larger than minutes; s = 0 is rendered as "0 seconds"; 60 gives
\* 1 minute and 0 seconds, and 3661 gives 61 minutes and 1 second.
C18_DurationFormat ==
    DurationReturned =>
        LET n == call.seconds
            out == ret.value
            minutes == IF Len(out) = 4 THEN out[1] ELSE 0
            secs == IF Len(out) = 4 THEN out[3] ELSE IF Len(out) = 2 THEN out[1] ELSE 0
        IN  /\ Len(out) \in {1, 2, 4}
            /\ Len(out) = 1 <=> n = 0
            /\ Len(out) = 1 => out[1] = "0 seconds"
            /\ Len(out) = 2 => out[2] = "seconds"
            /\ Len(out) = 4 => out[2] = "minutes" /\ out[4] = "seconds"
            /\ Len(out) = 4 <=> n >= 60
            /\ minutes = n \div 60
            /\ secs = n % 60
            /\ n = 60 => minutes = 1 /\ secs = 0
            /\ n = 3661 => minutes = 61 /\ secs = 1

\* 3661 seconds formatted as 61 minutes and 1 second
C18_Witness ==
    /\ DurationReturned
    /\ call.seconds = 3661
    /\ Len(ret.value) = 4
    /\ ret.value[1] = 61
    /\ ret.value[3] = 1

\* C19 as stated: when the run is started with --no-verification (and is no
\* dry run), checksum verification is skipped: no digest comparison is made
\* for the run, and the result and the manifest report the verification as
\* skipped, not as passed.
C19_Original ==
    ( /\ pc = "exited" /\ manifest_writes = 1
      /\ config.no_verification /\ ~config.dry_run ) =>
        /\ checksum_match(result) = "None"
        /\ Manifest.backup_status.verification_performed = FALSE
        /\ Manifest.backup_status.verification_passed = "skipped"
        /\ Manifest.integrity_verification.hashes_match = "None"
        /\ Manifest.integrity_verification.integrity_status = "not_performed"

Range(seq) == {seq[i] : i \in 1..Len(seq)}

\* C20: for all inputs (any copy result, any structural-analysis result,
\* error and skipped records included, any disk metadata) the manifest has
\* the same sections with the same keys, and it is written with the sections
\* in the order of the schema and the keys of each section in their fixed
\* order, which is never the alphabetical one.
C20_KeyOrder ==
    ManifestReturned =>
        LET m == ret.value
            layout == ret.file.data[2]
        IN  /\ ret.file.data[1] = m
            /\ DOMAIN m = Range(ManifestSections)
            /\ \A sec \in DOMAIN m : DOMAIN m[sec] = Range(SectionKeys[sec])
            /\ [i \in 1..Len(layout) |-> layout[i][1]] = ManifestSections
            /\ \A i \in 1..Len(layout) : layout[i][2] = SectionKeys[layout[i][1]]
            /\ [i \in 1..Len(layout) |-> layout[i][1]] # SortedSections
            /\ \A i \in 1..Len(layout) : layout[i][2] # SortedSectionKeys[layout[i][1]]

\* a manifest written from an error record of the analysis and a disk
\* dictionary with a single key
C20_Witness ==
    /\ ManifestReturned
    /\ "error" \in DOMAIN call.iso_analysis
    /\ Cardinality(DOMAIN call.disk_info) = 1
    /\ Len(ret.file.data[2]) = 12

\* ------------------------------------------------------------------- C21
\* the step taken from each position of the loop, unless an exception or a
\* cancellation ends the run there
LoopStep ==
    /\ (pc = "read" /\ pc' # "exited") =>
          /\ Len(chunk') <= BlockSize
          /\ chunk' = SubSeq(source, src_pos + 1, src_pos')
          /\ pc' = IF chunk' = << >> THEN "dd_wait" ELSE "write"
          /\ UNCHANGED << fs, iso_hasher, raw_hasher, bytes_written, progress_updates >>
    /\ (pc = "write" /\ pc' # "exited") =>
          /\ pc' = "hash_iso"
          /\ fs' = [fs EXCEPT !["iso"].data = @ \o chunk]
          /\ UNCHANGED << chunk, iso_hasher, raw_hasher, bytes_written, progress_updates >>
    /\ (pc = "hash_iso" /\ pc' # "exited") =>
          /\ pc' = "hash_raw"
          /\ iso_hasher' = MD5Update(iso_hasher, chunk)
          /\ UNCHANGED << chunk, fs, raw_hasher, bytes_written, progress_updates >>
    /\ (pc = "hash_raw" /\ pc' # "exited") =>
          /\ pc' = "count"
          /\ raw_hasher' = MD5Update(raw_hasher, chunk)
          /\ UNCHANGED << chunk, fs, iso_hasher, bytes_written, progress_updates >>
    /\ (pc = "count" /\ pc' # "exited") =>
          /\ pc' = "progress"
          /\ bytes_written' = bytes_written + Len(chunk)
          /\ UNCHANGED << chunk, fs, iso_hasher, raw_hasher, progress_updates >>
    /\ (pc = "progress" /\ pc' # "exited") =>
          /\ pc' = "read"
          /\ progress_updates' = progress_updates + 1
          /\ UNCHANGED << chunk, fs, iso_hasher, raw_hasher, bytes_written >>
    /\ pc' = "dd_wait" => pc = "read" /\ chunk' = << >>

\* C21: every iteration of the copy loop reads at most one block, leaves the
\* loop if the block is empty, and otherwise writes the block, updates the
\* first and then the second accumulator with that block, adds its length to
\* bytes_written and issues one progress update, in that order; the loop is
\* left normally only from an empty read.
C21_LoopOrder == [][LoopStep]_vars

\* two iterations have run and the third read, an empty one, has left the loop
C21_Witness ==
    /\ pc = "dd_wait"
    /\ progress_updates = 2
    /\ bytes_written = 2
    /\ chunk = << >>

\* ------------------------------------------------------------------- C22
\* the assembly of the reports has begun: the result is being built, or the
\* log or the manifest is being or has been written
ReportStarted == pc \in {"result", "log", "manifest"} \/ result.success

\* C22: in a run that is not a dry run the validator is invoked only after
\* the copy has completed normally (the whole stream read and written, dd
\* exited 0, the digests returned), the log and the manifest are written only
\* after the analysis has returned, and after a failed or cancelled copy
\* neither the validator nor the assembly of the reports is started.
C22_StageOrder ==
    ~config.dry_run =>
        /\ validator # "not_run" =>
              /\ CopyCompleted
              /\ error = NoError
              /\ src_pos = Len(source)
              /\ fs["iso"].data = source
        /\ ReportStarted =>
              /\ validator # "not_run"
              /\ iso_analysis # << >>
        /\ manifest_writes > 0 => fs["log"].exists /\ validator # "not_run"
        /\ (CopyFailed \/ Interrupted) =>
              /\ validator = "not_run"
              /\ ~ReportStarted
              /\ manifest_writes = 0
              /\ fs["log"] = fs_before["log"]
              /\ fs["manifest"] = fs_before["manifest"]

\* a run that copied a non-empty disc, ran the validator and wrote both reports
C22_Witness ==
    /\ pc = "exited"
    /\ ~config.dry_run
    /\ source # << >>
    /\ validator = "ran"
    /\ manifest_writes = 1
    /\ result.success

\* ------------------------------------------------------------------- C23
\* C23 as stated: a cancellation takes effect only between blocks: when the
\* copy is aborted by a cancellation, the destination file, the two digest
\* accumulators and bytes_written reflect the same whole number of blocks (no
\* block is in the file without being digested and counted).
C23_Original ==
    Interrupted =>
        /\ Len(fs["iso"].data) = bytes_written
        /\ iso_hasher = MD5Update(MD5New, fs["iso"].data)
        /\ raw_hasher = iso_hasher

\* ------------------------------------------------------------------- C24
\* C24 as stated: the outcome the manifest records for the disk unmount is
\* "success" only if the unmount command succeeded in that run.
C24_Original ==
    manifest_writes > 0 =>
        (Manifest.operations_performed.disk_unmount.status = "success"
            => unmounted = "success")

\* ------------------------------------------------------------------- C25
\* C25: in no run, dry or not, is checksum_match of the result False, so main
\* never takes the branch that exits with status 2.
C25_NoMismatch ==
    /\ checksum_match(result) # "False"
    /\ pc = "main_exit" => ExitStatus(result) # 2
    /\ exit_code # 2

\* a copy of a non-empty disc ended with success: the two digests were
\* compared, matched, and main exited with status 0
C25_Witness ==
    /\ pc = "exited"
    /\ ~config.dry_run
    /\ source # << >>
    /\ result.success
    /\ checksum_match(result) = "True"
    /\ exit_code = 0

\* ------------------------------------------------------------------- C26
\* C26 as stated: in every manifest, if backup_status.verification_performed
\* is false (a dry run, or --no-verification) then verification_passed is
\* "skipped" and integrity_status is "not_performed"; integrity_status is
\* "verified" only where verification_performed is true.
C26_Original ==
    manifest_writes > 0 =>
        /\ ~Manifest.backup_status.verification_performed =>
              /\ Manifest.backup_status.verification_passed = "skipped"
              /\ Manifest.integrity_verification.integrity_status = "not_performed"
        /\ Manifest.integrity_verification.integrity_status = "verified" =>
              Manifest.backup_status.verification_performed

\* ------------------------------------------------------------------- C27
\* C27 as stated: every run that is not a dry run and has issued the disk
\* unmount issues the finalization step before it ends, whatever the outcome
\* of the copy (success, read or write failure, failure of dd, cancellation).
C27_Original ==
    (pc = "exited" /\ ~config.dry_run /\ unmounted # "not_run") => finalized

\* C27 amended: a run that is not a dry run and has issued the disk unmount
\* goes on until the process exits, and it issues the finalization step if
\* and only if the copy completes normally, whatever the outcome of the
\* unmount and of the validator; after a read or write failure, a failure of
\* dd or a cancellation it ends without issuing it.
C27_FinalizeAfterCopy ==
    (~config.dry_run /\ unmounted # "not_run") =>
        /\ pc # "exited" => ENABLED Next
        /\ pc = "exited" => (finalized <=> error = NoError)
        /\ finalized => CopyCompleted /\ validator # "not_run"
        /\ (CopyFailed \/ Interrupted) => ~finalized

\* the unmount failed, the copy completed, the validator could not be run,
\* and the disk was finalized before the process exited
C27_Witness ==
    /\ pc = "exited"
    /\ ~config.dry_run
    /\ unmounted = "failed"
    /\ validator = "execution_failed"
    /\ finalized

\* ------------------------------------------------------------------- C28
\* C28: in a run that is not a dry run, create_backup builds and returns a
\* result with success = true only if the copy loop ended on end-of-stream
\* (an empty read with the whole stream in the image) and dd exited with
\* status 0; a non-zero exit of dd never leads to a success result, a log or
\* a manifest: the run ends there with exit status 1.
C28_SuccessNeedsCleanCopy ==
    ~config.dry_run =>
        /\ result.success =>
              /\ returncode = 0
              /\ chunk = << >>
              /\ src_pos = Len(source)
              /\ fs["iso"].data = source
        /\ returncode \notin {NoReturncode, 0} =>
              /\ pc = "exited"
              /\ exit_code = 1
              /\ ~result.success
              /\ ~result.returned
              /\ ~ReportStarted
              /\ manifest_writes = 0
              /\ fs["log"] = fs_before["log"]
              /\ fs["manifest"] = fs_before["manifest"]

\* the loop ended on end-of-stream after a non-empty copy, dd exited 0, and
\* create_backup returned a success result
C28_Witness ==
    /\ ~config.dry_run
    /\ source # << >>
    /\ returncode = 0
    /\ result.success
    /\ result.returned

\* ------------------------------------------------------------------- C29
\* a run that was not a dry run has ended with success and its manifest
SucceededCopy == pc = "exited" /\ ~config.dry_run /\ result.success /\ manifest_writes = 1

\* the size diskutil reported for the disk, 0 if it reported none
DeclaredSize == Get(disk_info, "TotalSize", 0)

\* C29 as stated: in every successful run that is not a dry run, the size the
\* run reports (the result's disk_size, the manifest's total_size_bytes and
\* the size the average speed is computed from) is the number of bytes copied
\* to the destination.
C29_Original ==
    SucceededCopy =>
        /\ result.disk_size = bytes_written
        /\ Manifest.volume_information.total_size_bytes = Len(fs["iso"].data)
        /\ Manifest.timing_performance.iso_creation.average_speed_mb_s
              = speed_mb_s([disk_size |-> bytes_written], result.creation_time)

\* C29 amended: in every successful run that is not a dry run, the size the
\* run reports (the result's disk_size, the manifest's total_size_bytes and
\* the size the average speed is computed from) is the TotalSize diskutil
\* reported for the disk, 0 if it reported none; it is the number of bytes
\* copied only when the two agree, and the number of bytes copied is reported
\* as the manifest's iso_file_size_bytes.
C29_ReportedSize ==
    SucceededCopy =>
        /\ result.disk_size = DeclaredSize
        /\ Manifest.volume_information.total_size_bytes = DeclaredSize
        /\ Manifest.timing_performance.iso_creation.average_speed_mb_s
              = speed_mb_s([disk_size |-> DeclaredSize], result.creation_time)
        /\ Manifest.output_files.iso_file_size_bytes = bytes_written
        /\ bytes_written = Len(fs["iso"].data)
        /\ (result.disk_size = bytes_written) <=> (DeclaredSize = Len(source))

\* a successful copy of fewer bytes than diskutil reported for the disk
C29_Witness ==
    /\ SucceededCopy
    /\ "TotalSize" \in DOMAIN disk_info
    /\ bytes_written > 0
    /\ bytes_written < result.disk_size

\* ------------------------------------------------------------------- C30
\* the log of this run has been written
LogWritten == result.success /\ pc \in {"manifest", "main_exit", "exited"}

\* C30 as stated: the log holds the entry "ISO Structure Analysis ... Status:
\* Complete" only in a run in which the validator was run and succeeded; the
\* entry is absent after a failed execution of the validator, with the
\* validator missing, and in a dry run.
C30_Original ==
    LogWritten =>
        (fs["log"].data[1].structure_analysis_complete
            => ~config.dry_run /\ validator = "ran")

====
